---- MODULE Spec2Model ----
(***************************************************************************)
(* Prefix-compressed abstract codec of the Portland STV cast vote records: *)
(* 3_generate_abstracts.py (RankingAbstract: load_ballots, sorting, prefix *)
(* grouping, text encoder) and 4_verify_abstracts.py (load_cvr_ballots,   *)
(* load_abstract_profile, verify_district).                                *)
(*                                                                         *)
(* Text is modelled character by character: a Python str is a sequence of  *)
(* one-character strings, a file is the sequence of its lines, each line   *)
(* ending in the newline character, as f.readlines() returns them.         *)
(***************************************************************************)
EXTENDS Integers, Sequences, FiniteSets, TLC

VARIABLES
    pc,                 \* position in the generate / verify pipeline
    district,           \* RankingAbstract.district
    csv_file,           \* rows of the CVR csv file (csv.DictReader dicts)
    min_group_size,     \* min_group_size handed to generate_prefix_groups
    next_row,           \* position of csv.DictReader in load_ballots
    ballots,            \* RankingAbstract.ballots
    candidates,         \* RankingAbstract.candidates
    preference_profile, \* RankingAbstract.preference_profile (insertion-ordered dict)
    sorted_rankings,    \* generate_abstract: sorted_rankings
    groups,             \* generate_abstract: groups
    group_i,            \* generate_prefix_groups: i, the cursor of the while loop
    abstract_file,      \* lines of the abstract text file
    tampered,           \* the abstract file was altered after it was written
    original_ballots,   \* verify_district: original_ballots
    abstract_profile,   \* verify_district: abstract_profile (insertion-ordered dict)
    candidate_legend,   \* verify_district: candidate_legend (insertion-ordered dict)
    verdict,            \* return value of verify_district
    report,             \* verify_district: the rankings printed as Missing and as Extra
    district_files,     \* main of the verifier: the csv file and the abstract of each district
    results,            \* main of the verifier: results (insertion-ordered dict)
    exit_status         \* exit status of the verifier script

vars == <<pc, district, csv_file, min_group_size, next_row, ballots, candidates,
          preference_profile, sorted_rankings, groups, abstract_file, tampered,
          original_ballots, abstract_profile, candidate_legend, verdict,
          report, district_files, results, exit_status, group_i>>

\* the state of main of the verifier
mainVars == <<district_files, results, exit_status>>

---------------------------------------------------------------------------
(* Bounds of the model.                                                    *)

\* longest csv file, in rows
MaxBallots == 3

\* longest csv file over four candidates, in rows
MaxRowsBallots == 4

\* largest min_group_size tried
MaxMinGroupSize == 3

\* longest csv file, in rows, of the runs in which the abstract is altered
MaxTamperBallots == 2

---------------------------------------------------------------------------
(* Python str and list primitives.                                         *)

NL == "\n"

Digits == <<"0", "1", "2", "3", "4", "5", "6", "7", "8", "9">>

IsDigit(c) == \E d \in 1..10 : Digits[d] = c

DigitVal(c) == (CHOOSE d \in 1..10 : Digits[d] = c) - 1

\* str.isspace() for one character
IsSpace(c) == c \in {" ", "\n", "\t", "\r"}

Min2(a, b) == IF a < b THEN a ELSE b

Max2(a, b) == IF a > b THEN a ELSE b

\* s[a:b] with Python's 0-based bounds, negative bounds counted from the end
PySlice(s, a, b) ==
    LET n  == Len(s)
        a1 == IF a < 0 THEN Max2(a + n, 0) ELSE Min2(a, n)
        b1 == IF b < 0 THEN Max2(b + n, 0) ELSE Min2(b, n)
    IN  IF a1 >= b1 THEN <<>> ELSE SubSeq(s, a1 + 1, b1)

\* s[k] with Python's 0-based index, negative index counted from the end
PyIndex(s, k) == IF k < 0 THEN s[Len(s) + k + 1] ELSE s[k + 1]

\* c * n
Repeat(c, n) == [k \in 1..n |-> c]

\* s.startswith(p)
StartsWith(s, p) ==
    /\ Len(p) <= Len(s)
    /\ \A k \in 1..Len(p) : s[k] = p[k]

\* c in s
Contains(s, c) == \E k \in 1..Len(s) : s[k] = c

\* s.strip()
Strip(s) ==
    LET keep == {k \in 1..Len(s) : ~IsSpace(s[k])}
    IN  IF keep = {} THEN <<>>
        ELSE LET lo == CHOOSE k \in keep : \A j \in keep : k <= j
                 hi == CHOOSE k \in keep : \A j \in keep : k >= j
             IN  SubSeq(s, lo, hi)

\* the j-th smallest element of a finite set of integers
Nth(S, j) == CHOOSE p \in S : Cardinality({q \in S : q < p}) = j - 1

\* s.split(c) for a one-character separator: the parts between the
\* occurrences of c, empty parts included
Split(s, c) ==
    LET seps == {k \in 1..Len(s) : s[k] = c}
        cut(j) == IF j = 0 THEN 0
                  ELSE IF j > Cardinality(seps) THEN Len(s) + 1
                  ELSE Nth(seps, j)
    IN  [j \in 1..(Cardinality(seps) + 1) |-> SubSeq(s, cut(j - 1) + 1, cut(j) - 1)]

\* s.split(): the maximal runs of characters that are not whitespace
SplitWs(s) ==
    LET starts == {k \in 1..Len(s) :
                      ~IsSpace(s[k]) /\ (k = 1 \/ IsSpace(s[k - 1]))}
        stop(a) == CHOOSE e \in a..Len(s) :
                      /\ \A k \in a..e : ~IsSpace(s[k])
                      /\ (e = Len(s) \/ IsSpace(s[e + 1]))
    IN  [j \in 1..Cardinality(starts) |-> SubSeq(s, Nth(starts, j), stop(Nth(starts, j)))]

MatchAt(s, p, i) ==
    /\ i + Len(p) - 1 <= Len(s)
    /\ \A k \in 1..Len(p) : s[i + k - 1] = p[k]

\* s.replace(old, new), old not empty
RECURSIVE ReplaceFrom(_, _, _, _)
ReplaceFrom(s, old, new, i) ==
    IF i > Len(s) THEN <<>>
    ELSE IF MatchAt(s, old, i) THEN new \o ReplaceFrom(s, old, new, i + Len(old))
    ELSE <<s[i]>> \o ReplaceFrom(s, old, new, i + 1)

Replace(s, old, new) == ReplaceFrom(s, old, new, 1)

\* sep.join(parts)
RECURSIVE Join(_, _)
Join(parts, sep) ==
    IF parts = <<>> THEN <<>>
    ELSE IF Len(parts) = 1 THEN parts[1]
    ELSE parts[1] \o sep \o Join(Tail(parts), sep)

\* str(n) for n >= 0
RECURSIVE IntToStr(_)
IntToStr(n) ==
    IF n < 10 THEN <<Digits[n + 1]>>
    ELSE IntToStr(n \div 10) \o <<Digits[(n % 10) + 1]>>

\* f"{n:02d}" for n >= 0
ZeroPad2(n) == IF n < 10 THEN <<"0">> \o IntToStr(n) ELSE IntToStr(n)

RECURSIVE DigitsValue(_, _)
DigitsValue(s, acc) ==
    IF s = <<>> THEN acc
    ELSE IF s[1] = "_" THEN DigitsValue(Tail(s), acc)
    ELSE DigitsValue(Tail(s), 10 * acc + DigitVal(s[1]))

\* int(s) succeeds: optional sign, digits, single underscores between digits
IsIntLiteral(s) ==
    LET body == IF s # <<>> /\ s[1] \in {"+", "-"} THEN Tail(s) ELSE s
    IN  /\ body # <<>>
        /\ \A k \in 1..Len(body) : IsDigit(body[k]) \/ body[k] = "_"
        /\ IsDigit(body[1])
        /\ IsDigit(body[Len(body)])
        /\ \A k \in 1..(Len(body) - 1) : ~(body[k] = "_" /\ body[k + 1] = "_")

\* int(s), for s with IsIntLiteral(s)
ParseInt(s) ==
    IF s[1] = "-" THEN 0 - DigitsValue(Tail(s), 0)
    ELSE IF s[1] = "+" THEN DigitsValue(Tail(s), 0)
    ELSE DigitsValue(s, 0)

---------------------------------------------------------------------------
(* Python dict with insertion order: a sequence of <<key, value>> pairs    *)
(* with distinct keys.                                                     *)

DictKeys(d) == {d[k][1] : k \in 1..Len(d)}

DictHas(d, key) == \E k \in 1..Len(d) : d[k][1] = key

DictGet(d, key) == d[CHOOSE k \in 1..Len(d) : d[k][1] = key][2]

\* d.get(key, default)
DictGetOr(d, key, default) == IF DictHas(d, key) THEN DictGet(d, key) ELSE default

\* d[key] = value: an existing key keeps its place, a new key goes last
DictSet(d, key, value) ==
    IF DictHas(d, key)
    THEN [k \in 1..Len(d) |-> IF d[k][1] = key THEN <<key, value>> ELSE d[k]]
    ELSE Append(d, <<key, value>>)

\* two dicts are == in Python: same keys, same values, order ignored
DictEq(d, e) ==
    /\ DictKeys(d) = DictKeys(e)
    /\ \A key \in DictKeys(d) : DictGet(d, key) = DictGet(e, key)

SumValues(d) ==
    LET RECURSIVE Sum(_, _)
        Sum(lo, hi) ==
            IF lo > hi THEN 0
            ELSE IF lo = hi THEN d[lo][2]
            ELSE Sum(lo, (lo + hi) \div 2) + Sum(((lo + hi) \div 2) + 1, hi)
    IN  Sum(1, Len(d))

---------------------------------------------------------------------------
(* Ballot rows of the csv file.                                            *)

\* f'Rank {i}' for i in range(1, 7)
RankCol == <<"Rank 1", "Rank 2", "Rank 3", "Rank 4", "Rank 5", "Rank 6">>

\* rank positions read from a row: range(1, 7)
NumRanks == 6

Overvote == <<"o", "v", "e", "r", "v", "o", "t", "e">>

WriteInPrefix == <<"W", "r", "i", "t", "e", "-", "i", "n", "-">>

\* candidate names of the bounded inputs
Al == <<"A", "l">>
AlB == <<"A", "l", " ", "B">>
Bo == <<"B", "o">>

NoMark == <<>>

\* the ballot rows the csv files of the model are made of
Rows == {
    [c \in {RankCol[k] : k \in 1..6} |-> NoMark],
    [c \in {RankCol[k] : k \in 1..6} |-> IF c = "Rank 1" THEN Al ELSE NoMark],
    [c \in {RankCol[k] : k \in 1..6} |->
        IF c = "Rank 1" THEN Al ELSE IF c = "Rank 2" THEN AlB ELSE NoMark],
    [c \in {RankCol[k] : k \in 1..6} |->
        CASE c = "Rank 1" -> Al
          [] c = "Rank 2" -> Overvote
          [] c = "Rank 3" -> AlB
          [] c = "Rank 4" -> Al
          [] c = "Rank 5" -> NoMark
          [] c = "Rank 6" -> Bo],
    [c \in {RankCol[k] : k \in 1..6} |->
        CASE c = "Rank 1" -> WriteInPrefix \o <<"1">>
          [] c = "Rank 2" -> <<" ">> \o Al \o <<" ">>
          [] c = "Rank 3" -> Bo
          [] OTHER -> NoMark],
    [c \in {RankCol[k] : k \in 1..6} |->
        IF c \in {"Rank 2", "Rank 3"} THEN Bo ELSE NoMark] }

\* None, the value csv.DictReader gives the fields a short row does not
\* reach: no str (a str holds one-character strings only)
None == <<"None">>

\* row.get(col, '')
RowGet(row, col) == IF col \in DOMAIN row THEN row[col] ELSE <<>>

\* row.get(rank_col, '').strip() raises AttributeError at some position
RowRaises(row) == \E i \in 1..NumRanks : RowGet(row, RankCol[i]) = None

\* the row as the loop over the positions sees it before it raises: the
\* positions from the first None on are not reached
BeforeRaise(row) ==
    [c \in DOMAIN row |->
        IF \E i, j \in 1..NumRanks : i <= j /\ RankCol[j] = c /\ row[RankCol[i]] = None
        THEN <<>> ELSE row[c]]

InSeq(s, x) == \E k \in 1..Len(s) : s[k] = x

\* the loop that appends a candidate each time it is marked
RECURSIVE RankingFrom_NoDedupe(_, _, _)
RankingFrom_NoDedupe(row, i, ranking) ==
    IF i > NumRanks THEN ranking
    ELSE LET candidate == Strip(RowGet(row, RankCol[i]))
         IN  IF /\ candidate # <<>>
                /\ candidate # Overvote
                /\ ~StartsWith(candidate, WriteInPrefix)
             THEN RankingFrom_NoDedupe(row, i + 1, Append(ranking, candidate))
             ELSE RankingFrom_NoDedupe(row, i + 1, ranking)

\* load_ballots / load_cvr_ballots: the loop over Rank 1 .. Rank 6 of one row
RECURSIVE RankingFrom(_, _, _)
RankingFrom(row, i, ranking) ==
    IF i > NumRanks THEN ranking
    ELSE LET candidate == Strip(RowGet(row, RankCol[i]))
         IN  IF /\ candidate # <<>>
                /\ candidate # Overvote
                /\ ~StartsWith(candidate, WriteInPrefix)
                /\ ~InSeq(ranking, candidate)
             THEN RankingFrom(row, i + 1, Append(ranking, candidate))
             ELSE RankingFrom(row, i + 1, ranking)

RowRanking(row) == RankingFrom(row, 1, <<>>)

\* the count that starts again at 1 at every occurrence
CountRanking_NoIncrement(profile, ranking_tuple) == DictSet(profile, ranking_tuple, 1)

\* load_ballots: count one occurrence of ranking_tuple in the profile
CountRanking(profile, ranking_tuple) ==
    IF DictHas(profile, ranking_tuple)
    THEN DictSet(profile, ranking_tuple, DictGet(profile, ranking_tuple) + 1)
    ELSE DictSet(profile, ranking_tuple, 1)

\* load_ballots: the body of the loop over the rows, on the three fields
\* of the instance it updates
ReadRow(st, row) ==
    LET ranking_tuple == RowRanking(row)
    IN  [ballots    |-> Append(st.ballots, ranking_tuple),
         candidates |-> st.candidates
                           \cup {ranking_tuple[k] : k \in 1..Len(ranking_tuple)},
         profile    |-> CountRanking(st.profile, ranking_tuple)]

\* load_ballots on a fresh instance: every row of the file, in order
RECURSIVE load_ballots(_)
load_ballots(rows) ==
    IF rows = <<>> THEN [ballots |-> <<>>, candidates |-> {}, profile |-> <<>>]
    ELSE ReadRow(load_ballots(SubSeq(rows, 1, Len(rows) - 1)), rows[Len(rows)])

---------------------------------------------------------------------------
(* Canonical candidate order and sorted profile.                           *)

\* ord(c) of the characters of the candidate names
Ord(c) ==
    CASE c = " " -> 32
      [] c = "A" -> 65
      [] c = "B" -> 66
      [] c = "C" -> 67
      [] c = "l" -> 108
      [] c = "o" -> 111

\* a < b for Python str: code point order, a strict prefix is smaller
RECURSIVE StrLess(_, _)
StrLess(a, b) ==
    IF b = <<>> THEN FALSE
    ELSE IF a = <<>> THEN TRUE
    ELSE IF a[1] = b[1] THEN StrLess(Tail(a), Tail(b))
    ELSE Ord(a[1]) < Ord(b[1])

\* the comparison where a tuple that continues another one is the smaller
RECURSIVE TupleLess_LongerFirst(_, _)
TupleLess_LongerFirst(a, b) ==
    IF a = <<>> THEN FALSE
    ELSE IF b = <<>> THEN TRUE
    ELSE IF a[1] = b[1] THEN TupleLess_LongerFirst(Tail(a), Tail(b))
    ELSE a[1] < b[1]

\* a < b for Python tuples of int
RECURSIVE TupleLess(_, _)
TupleLess(a, b) ==
    IF b = <<>> THEN FALSE
    ELSE IF a = <<>> THEN TRUE
    ELSE IF a[1] = b[1] THEN TupleLess(Tail(a), Tail(b))
    ELSE a[1] < b[1]

\* sorted(list(self.candidates))
RECURSIVE SortedNames(_)
SortedNames(names) ==
    IF names = {} THEN <<>>
    ELSE LET least == CHOOSE x \in names : \A y \in names \ {x} : StrLess(x, y)
         IN  <<least>> \o SortedNames(names \ {least})

get_canonical_candidate_order(cands) == SortedNames(cands)

\* candidate_to_idx[c]
CandidateIdx(candidate_order, c) ==
    (CHOOSE k \in 1..Len(candidate_order) : candidate_order[k] = c) - 1

\* ranking_key comparing the first choice only
ranking_key_FirstOnly(candidate_order, item) ==
    [k \in 1..Min2(1, Len(item[1])) |-> CandidateIdx(candidate_order, item[1][k])]

\* ranking_key(item)
ranking_key(candidate_order, item) ==
    [k \in 1..Len(item[1]) |-> CandidateIdx(candidate_order, item[1][k])]

\* sorted(items, key=ranking_key) is stable: an item goes after every item
\* with a smaller key and after every earlier item with the same key
SortedByKey(candidate_order, items) ==
    LET key == <<>> \o [k \in 1..Len(items) |-> ranking_key(candidate_order, items[k])]
        before(j, k) == TupleLess(key[j], key[k]) \/ (key[j] = key[k] /\ j < k)
        place == <<>> \o [k \in 1..Len(items) |->
                             Cardinality({j \in 1..Len(items) : before(j, k)}) + 1]
    IN  [p \in 1..Len(items) |-> items[CHOOSE k \in 1..Len(items) : place[k] = p]]

get_sorted_rankings(cands, profile) ==
    SortedByKey(get_canonical_candidate_order(cands), profile)

---------------------------------------------------------------------------
(* Prefix grouping.                                                        *)

\* the look-ahead of generate_prefix_groups: range(.., min(i + 200, ..))
LookaheadWindow == 200

\* min(len(rankings[j]) for j in range(start, end)), rankings the slice
MinLen(rankings) ==
    LET lens == {Len(rankings[k]) : k \in 1..Len(rankings)}
    IN  CHOOSE m \in lens : \A n \in lens : m <= n

\* find_common_prefix: the loop that grows prefix_len
RECURSIVE PrefixLenLoop(_, _, _, _, _, _)
PrefixLenLoop(rankings, start, end, i, limit, prefix_len) ==
    IF i >= limit THEN prefix_len
    ELSE IF \A j \in start..(end - 1) :
                PyIndex(PyIndex(rankings, j), i) = PyIndex(PyIndex(rankings, start), i)
         THEN PrefixLenLoop(rankings, start, end, i + 1, limit, i + 1)
         ELSE prefix_len

\* find_common_prefix without the return for a single ranking
find_common_prefix_SingleAllowed(rankings, start, end) ==
    IF start >= end THEN <<>>
    ELSE LET first_ranking == PyIndex(rankings, start)
             limit == MinLen(PySlice(rankings, start, end))
         IN  PySlice(first_ranking, 0,
                     PrefixLenLoop(rankings, start, end, 0, limit, 0))

find_common_prefix(rankings, start, end) ==
    IF start >= end THEN <<>>
    ELSE IF start + 1 >= end THEN <<>>
    ELSE LET first_ranking == PyIndex(rankings, start)
             limit == MinLen(PySlice(rankings, start, end))
         IN  PySlice(first_ranking, 0,
                     PrefixLenLoop(rankings, start, end, 0, limit, 0))

\* [r[0] for r in items]
RankingsOnly(items) == [k \in 1..Len(items) |-> items[k][1]]

\* the look-ahead where a later end-point with a prefix of the same length wins
RECURSIVE LookAhead_LastWins(_, _, _, _, _)
LookAhead_LastWins(sr, i, end, stop, best) ==
    IF end >= stop THEN best
    ELSE LET rankings_only == RankingsOnly(PySlice(sr, i, end))
             prefix == find_common_prefix(rankings_only, 0, Len(rankings_only))
         IN  IF Len(prefix) >= Len(best.prefix)
             THEN LookAhead_LastWins(sr, i, end + 1, stop, [prefix |-> prefix, end |-> end])
             ELSE LookAhead_LastWins(sr, i, end + 1, stop, best)

\* generate_prefix_groups: the for loop over end
RECURSIVE LookAhead(_, _, _, _, _)
LookAhead(sr, i, end, stop, best) ==
    IF end >= stop THEN best
    ELSE LET rankings_only == RankingsOnly(PySlice(sr, i, end))
             prefix == find_common_prefix(rankings_only, 0, Len(rankings_only))
         IN  IF Len(prefix) > Len(best.prefix)
             THEN LookAhead(sr, i, end + 1, stop, [prefix |-> prefix, end |-> end])
             ELSE LookAhead(sr, i, end + 1, stop, best)

\* the exclusive upper bound of the range of end
LookAheadStop(sr, i) == Min2(i + LookaheadWindow, Len(sr) + 1)

\* the look-ahead starting one end-point early
BestGrouping_OffByOne(sr, i, mgs) ==
    LookAhead(sr, i, i + mgs - 1, LookAheadStop(sr, i), [prefix |-> <<>>, end |-> i + 1])

BestGrouping(sr, i, mgs) ==
    LookAhead(sr, i, i + mgs, LookAheadStop(sr, i), [prefix |-> <<>>, end |-> i + 1])

\* the extension without the comparison with best_prefix
RECURSIVE ExtendBestEnd_LengthOnly(_, _, _)
ExtendBestEnd_LengthOnly(sr, best_prefix, best_end) ==
    IF /\ best_end < Len(sr)
       /\ Len(PyIndex(sr, best_end)[1]) >= Len(best_prefix)
    THEN ExtendBestEnd_LengthOnly(sr, best_prefix, best_end + 1)
    ELSE best_end

\* generate_prefix_groups: the while loop that extends best_end
RECURSIVE ExtendBestEnd(_, _, _)
ExtendBestEnd(sr, best_prefix, best_end) ==
    IF /\ best_end < Len(sr)
       /\ Len(PyIndex(sr, best_end)[1]) >= Len(best_prefix)
       /\ PySlice(PyIndex(sr, best_end)[1], 0, Len(best_prefix)) = best_prefix
    THEN ExtendBestEnd(sr, best_prefix, best_end + 1)
    ELSE best_end

\* the group cut at the end-point found before the extension
GroupAt_Unextended(sr, i, mgs) ==
    LET best == BestGrouping(sr, i, mgs)
    IN  IF Len(best.prefix) > 0
        THEN [group |-> <<best.prefix, PySlice(sr, i, best.end)>>,
              next  |-> ExtendBestEnd(sr, best.prefix, best.end)]
        ELSE [group |-> <<<<>>, PySlice(sr, i, i + 1)>>, next |-> i + 1]

\* one iteration of the outer while loop at cursor i:
\* the group appended and the next cursor
GroupAt(sr, i, mgs) ==
    LET best == BestGrouping(sr, i, mgs)
    IN  IF Len(best.prefix) > 0
        THEN LET best_end == ExtendBestEnd(sr, best.prefix, best.end)
             IN  [group |-> <<best.prefix, PySlice(sr, i, best_end)>>, next |-> best_end]
        ELSE [group |-> <<<<>>, PySlice(sr, i, i + 1)>>, next |-> i + 1]

\* generate_prefix_groups: the outer while loop, for min_group_size >= 0. An
\* iteration then moves the cursor forward by at least one entry, so the loop has
\* ended after len(sorted_rankings) iterations; Iterate(st, n) is the state after n iterations from st (fewer
\* when the loop has ended), computed by halving n.
generate_prefix_groups(sr, mgs) ==
    LET Iteration(st) ==
            IF st.i < Len(sr)
            THEN LET step == GroupAt(sr, st.i, mgs)
                 IN  [i |-> step.next, groups |-> Append(st.groups, step.group)]
            ELSE st
        RECURSIVE Iterate(_, _)
        Iterate(st, n) ==
            IF st.i >= Len(sr) \/ n = 0 THEN st
            ELSE IF n = 1 THEN Iteration(st)
            ELSE Iterate(Iterate(st, n \div 2), n - (n \div 2))
    IN  Iterate([i |-> 0, groups |-> <<>>], Len(sr)).groups

---------------------------------------------------------------------------
(* Literal text of the abstract file (encoder) and of the markers the      *)
(* decoder looks for.                                                      *)

\* the title lines: the district line up to its number, the city, the election
TitleText ==
    << \* [1] district line
       <<"A", "B", "S", "T", "R", "A", "C", "T", " ", "O", "F", " ", "V", "O",
         "T", "E", "S", " ", "-", " ", "C", "I", "T", "Y", " ", "C", "O", "U",
         "N", "C", "I", "L", " ", "D", "I", "S", "T", "R", "I", "C", "T", " ">>,
       \* [2] city
       <<"C", "i", "t", "y", " ", "o", "f", " ", "P", "o", "r", "t", "l", "a",
         "n", "d", ",", " ", "O", "r", "e", "g", "o", "n", "\n">>,
       \* [3] election
       <<"N", "o", "v", "e", "m", "b", "e", "r", " ", "2", "0", "2", "4", " ",
         "G", "e", "n", "e", "r", "a", "l", " ", "E", "l", "e", "c", "t", "i",
         "o", "n", "\n">> >>

\* the contest lines; [2], [5] and [6] are followed by a number
ContestText ==
    << \* [1] section header
       <<"C", "O", "N", "T", "E", "S", "T", " ", "I", "N", "F", "O", "R", "M",
         "A", "T", "I", "O", "N", "\n">>,
       \* [2] contest
       <<"C", "o", "n", "t", "e", "s", "t", ":", " ", "C", "i", "t", "y", " ",
         "C", "o", "u", "n", "c", "i", "l", " ", "D", "i", "s", "t", "r", "i",
         "c", "t", " ">>,
       \* [3] election method
       <<"E", "l", "e", "c", "t", "i", "o", "n", " ", "M", "e", "t", "h", "o",
         "d", ":", " ", "S", "i", "n", "g", "l", "e", " ", "T", "r", "a", "n",
         "s", "f", "e", "r", "a", "b", "l", "e", " ", "V", "o", "t", "e", " ",
         "(", "S", "T", "V", ")", "\n">>,
       \* [4] seats
       <<"S", "e", "a", "t", "s", ":", " ", "3", "\n">>,
       \* [5] total ballots
       <<"T", "o", "t", "a", "l", " ", "B", "a", "l", "l", "o", "t", "s", " ",
         "w", "i", "t", "h", " ", "R", "a", "n", "k", "i", "n", "g", "s", ":",
         " ">>,
       \* [6] unique rankings
       <<"U", "n", "i", "q", "u", "e", " ", "R", "a", "n", "k", "i", "n", "g",
         " ", "E", "x", "p", "r", "e", "s", "s", "i", "o", "n", "s", ":", " ">> >>

CandidateLegendLine ==
    <<"C", "A", "N", "D", "I", "D", "A", "T", "E", " ", "L", "E", "G", "E",
      "N", "D", "\n">>

ExplanationLine ==
    <<"E", "X", "P", "L", "A", "N", "A", "T", "I", "O", "N", "\n">>

\* the eight lines of the explanation
ExplanationText ==
    << <<"T", "h", "i", "s", " ", "a", "b", "s", "t", "r", "a", "c", "t", " ",
         "l", "i", "s", "t", "s", " ", "a", "l", "l", " ", "u", "n", "i", "q",
         "u", "e", " ", "r", "a", "n", "k", "i", "n", "g", " ", "e", "x", "p",
         "r", "e", "s", "s", "i", "o", "n", "s", " ", "t", "h", "a", "t", " ",
         "a", "p", "p", "e", "a", "r", " ", "i", "n", " ", "t", "h", "e", "\n">>,
       <<"C", "a", "s", "t", " ", "V", "o", "t", "e", " ", "R", "e", "c", "o",
         "r", "d", " ", "(", "C", "V", "R", ")", ".", " ", "R", "a", "n", "k",
         "i", "n", "g", "s", " ", "a", "r", "e", " ", "s", "o", "r", "t", "e",
         "d", " ", "l", "e", "x", "i", "c", "o", "g", "r", "a", "p", "h", "i",
         "c", "a", "l", "l", "y", " ", "b", "y", " ", "c", "a", "n", "d", "i",
         "d", "a", "t", "e", "\n">>,
       <<"o", "r", "d", "e", "r", " ", "a", "n", "d", " ", "g", "r", "o", "u",
         "p", "e", "d", " ", "b", "y", " ", "c", "o", "m", "m", "o", "n", " ",
         "p", "r", "e", "f", "i", "x", " ", "f", "o", "r", " ", "c", "o", "m",
         "p", "r", "e", "s", "s", "i", "o", "n", ".", "\n">>,
       <<"F", "o", "r", "m", "a", "t", ":", " ", "<", "r", "a", "n", "k", "i",
         "n", "g", " ", "e", "x", "p", "r", "e", "s", "s", "i", "o", "n", ">",
         " ", ":", " ", "<", "c", "o", "u", "n", "t", ">", "\n">>,
       <<"S", "y", "m", "b", "o", "l", " ", "'", ">", "'", " ", "m", "e", "a",
         "n", "s", " ", "'", "p", "r", "e", "f", "e", "r", "r", "e", "d", " ",
         "o", "v", "e", "r", "'", "\n">>,
       <<"(", "e", "m", "p", "t", "y", ")", " ", "m", "e", "a", "n", "s", " ",
         "n", "o", " ", "r", "a", "n", "k", "i", "n", "g", " ", "w", "a", "s",
         " ", "c", "a", "s", "t", "\n">>,
       <<"P", "r", "e", "f", "i", "x", " ", "c", "o", "m", "p", "r", "e", "s",
         "s", "i", "o", "n", ":", " ", "W", "h", "e", "n", " ", "m", "u", "l",
         "t", "i", "p", "l", "e", " ", "r", "a", "n", "k", "i", "n", "g", "s",
         " ", "s", "h", "a", "r", "e", " ", "a", " ", "c", "o", "m", "m", "o",
         "n", " ", "p", "r", "e", "f", "i", "x", ",", " ", "t", "h", "e", "\n">>,
       <<"p", "r", "e", "f", "i", "x", " ", "i", "s", " ", "s", "t", "a", "t",
         "e", "d", " ", "o", "n", "c", "e", ",", " ", "f", "o", "l", "l", "o",
         "w", "e", "d", " ", "b", "y", " ", "t", "h", "e", " ", "d", "i", "s",
         "t", "i", "n", "c", "t", " ", "s", "u", "f", "f", "i", "x", "e", "s",
         " ", "w", "i", "t", "h", " ", "c", "o", "u", "n", "t", "s", ".", "\n">> >>

PreferenceProfileLine ==
    <<"P", "R", "E", "F", "E", "R", "E", "N", "C", "E", " ", "P", "R", "O",
      "F", "I", "L", "E", " ", "(", "P", "R", "E", "F", "I", "X", "-", "C",
      "O", "M", "P", "R", "E", "S", "S", "E", "D", ")", "\n">>

PrefixLabel ==
    <<"P", "R", "E", "F", "I", "X", ":", " ">>

SuffixLead ==
    <<" ", " ", ".", ".", ".", " ", ">", " ">>

ExactMatchLead ==
    <<" ", " ", "(", "e", "x", "a", "c", "t", " ", "m", "a", "t", "c", "h",
      ")", " ", ":", " ">>

CountSep ==
    <<" ", ":", " ">>

EmptyMarker ==
    <<"(", "e", "m", "p", "t", "y", ")">>

JoinSep ==
    <<" ", ">", " ">>

EndOfAbstractLine ==
    <<"E", "N", "D", " ", "O", "F", " ", "A", "B", "S", "T", "R", "A", "C",
      "T", "\n">>

TotalExpressionsPrefix ==
    <<"T", "o", "t", "a", "l", " ", "r", "a", "n", "k", "i", "n", "g", " ",
      "e", "x", "p", "r", "e", "s", "s", "i", "o", "n", "s", ":", " ">>

TotalBallotsFooterPrefix ==
    <<"T", "o", "t", "a", "l", " ", "b", "a", "l", "l", "o", "t", "s", ":",
      " ">>

MarkCandidateLegend ==
    <<"C", "A", "N", "D", "I", "D", "A", "T", "E", " ", "L", "E", "G", "E",
      "N", "D">>

MarkExplanation ==
    <<"E", "X", "P", "L", "A", "N", "A", "T", "I", "O", "N">>

MarkPreferenceProfile ==
    <<"P", "R", "E", "F", "E", "R", "E", "N", "C", "E", " ", "P", "R", "O",
      "F", "I", "L", "E">>

MarkEndOfAbstract ==
    <<"E", "N", "D", " ", "O", "F", " ", "A", "B", "S", "T", "R", "A", "C",
      "T">>

MarkPrefix ==
    <<"P", "R", "E", "F", "I", "X", ":">>

MarkExactMatch ==
    <<"(", "e", "x", "a", "c", "t", " ", "m", "a", "t", "c", "h", ")">>

MarkEllipsis ==
    <<".", ".", ".">>

\* width of the rule lines the encoder writes: "=" * 80, "-" * 80
RuleWidth == 80

\* width of the rule the legend parser skips: '-' * 40
LegendRuleWidth == 40

RuleEq == Repeat("=", RuleWidth) \o <<NL>>

RuleDash == Repeat("-", RuleWidth) \o <<NL>>

LegendRule == Repeat("-", LegendRuleWidth)

BlankLine == <<NL>>

---------------------------------------------------------------------------
(* Abstract encoder: generate_abstract.                                    *)

\* the IDs numbered from 0
CandidateId_ZeroBased(candidate_order, c) ==
    <<"C">> \o ZeroPad2(CandidateIdx(candidate_order, c))

\* candidate_to_id[c] = f"C{i+1:02d}"
CandidateId(candidate_order, c) ==
    <<"C">> \o ZeroPad2(CandidateIdx(candidate_order, c) + 1)

\* format_ranking without the (empty) marker
format_ranking_NoEmptyMarker(ranking, candidate_order) ==
    Join([k \in 1..Len(ranking) |-> CandidateId(candidate_order, ranking[k])], JoinSep)

format_ranking(ranking, candidate_order) ==
    LET ids == IF candidate_order # <<>>
               THEN [k \in 1..Len(ranking) |-> CandidateId(candidate_order, ranking[k])]
               ELSE ranking
    IN  IF ids = <<>> THEN EmptyMarker ELSE Join(ids, JoinSep)

\* one line of a group with a prefix: the suffix, or (exact match)
MemberLine(prefix, item, candidate_order) ==
    LET suffix == PySlice(item[1], Len(prefix), Len(item[1]))
    IN  IF suffix # <<>>
        THEN SuffixLead \o format_ranking(suffix, candidate_order)
                 \o CountSep \o IntToStr(item[2]) \o <<NL>>
        ELSE ExactMatchLead \o IntToStr(item[2]) \o <<NL>>

\* the line that writes the empty ranking as an exact match
FullLine_EmptyAsExactMatch(item, candidate_order) ==
    IF item[1] = <<>>
    THEN ExactMatchLead \o IntToStr(item[2]) \o <<NL>>
    ELSE format_ranking(item[1], candidate_order) \o CountSep \o IntToStr(item[2]) \o <<NL>>

\* one line of a group without prefix: the full ranking
FullLine(item, candidate_order) ==
    format_ranking(item[1], candidate_order) \o CountSep \o IntToStr(item[2]) \o <<NL>>

\* the lines written for one (prefix, group)
GroupLines(g, candidate_order) ==
    IF Len(g[1]) > 0
    THEN <<PrefixLabel \o format_ranking(g[1], candidate_order) \o <<NL>>, RuleDash>>
         \o [k \in 1..Len(g[2]) |-> MemberLine(g[1], g[2][k], candidate_order)]
         \o <<BlankLine>>
    ELSE [k \in 1..Len(g[2]) |-> FullLine(g[2][k], candidate_order)]

\* the lines of all groups in order: those of groups lo..hi, computed by halves
AllGroupLines(gs, candidate_order) ==
    LET RECURSIVE Range(_, _)
        Range(lo, hi) ==
            IF lo > hi THEN <<>>
            ELSE IF lo = hi THEN GroupLines(gs[lo], candidate_order)
            ELSE Range(lo, (lo + hi) \div 2) \o Range(((lo + hi) \div 2) + 1, hi)
    IN  Range(1, Len(gs))

\* ranking_count after the loop over the groups
RankingCount(gs) ==
    LET RECURSIVE Count(_, _)
        Count(lo, hi) ==
            IF lo > hi THEN 0
            ELSE IF lo = hi THEN Len(gs[lo][2])
            ELSE Count(lo, (lo + hi) \div 2) + Count(((lo + hi) \div 2) + 1, hi)
    IN  Count(1, Len(gs))

HeaderLines(d) ==
    <<RuleEq, TitleText[1] \o IntToStr(d) \o <<NL>>, TitleText[2], TitleText[3],
      RuleEq, BlankLine>>

ContestLines(d, num_ballots, num_unique) ==
    <<ContestText[1], RuleDash,
      ContestText[2] \o IntToStr(d) \o <<NL>>,
      ContestText[3], ContestText[4],
      ContestText[5] \o IntToStr(num_ballots) \o <<NL>>,
      ContestText[6] \o IntToStr(num_unique) \o <<NL>>,
      BlankLine>>

LegendLines(candidate_order) ==
    <<CandidateLegendLine, RuleDash>>
    \o [k \in 1..Len(candidate_order) |->
           CandidateId(candidate_order, candidate_order[k]) \o <<" ", " ">>
               \o candidate_order[k] \o <<NL>>]
    \o <<BlankLine>>

ExplanationLines ==
    <<ExplanationLine, RuleDash,
      ExplanationText[1], ExplanationText[2], ExplanationText[3], BlankLine,
      ExplanationText[4], ExplanationText[5], ExplanationText[6], BlankLine,
      ExplanationText[7], ExplanationText[8], BlankLine>>

\* the footer counting the groups instead of the ranking lines
FooterLines_GroupCount(gs, sr) ==
    <<BlankLine, RuleEq, EndOfAbstractLine,
      TotalExpressionsPrefix \o IntToStr(Len(gs)) \o <<NL>>,
      TotalBallotsFooterPrefix \o IntToStr(SumValues(sr)) \o <<NL>>,
      RuleEq>>

FooterLines(gs, sr) ==
    <<BlankLine, RuleEq, EndOfAbstractLine,
      TotalExpressionsPrefix \o IntToStr(RankingCount(gs)) \o <<NL>>,
      TotalBallotsFooterPrefix \o IntToStr(SumValues(sr)) \o <<NL>>,
      RuleEq>>

\* the lines generate_abstract writes
AbstractLines(d, num_ballots, num_unique, candidate_order, gs, sr) ==
    HeaderLines(d)
    \o ContestLines(d, num_ballots, num_unique)
    \o LegendLines(candidate_order)
    \o ExplanationLines
    \o <<PreferenceProfileLine, RuleEq, BlankLine>>
    \o AllGroupLines(gs, candidate_order)
    \o FooterLines(gs, sr)

\* generate_abstract after load_ballots: the text written for what the
\* instance holds (ballot count, candidates, preference profile)
AbstractText(d, num_ballots, cands, profile, mgs) ==
    LET sr == get_sorted_rankings(cands, profile)
        gs == generate_prefix_groups(sr, mgs)
    IN  AbstractLines(d, num_ballots, Len(profile),
                      get_canonical_candidate_order(cands), gs, sr)

---------------------------------------------------------------------------
(* Abstract decoder: load_abstract_profile.                                *)

\* length of the run of characters satisfying digit / space from position i
RECURSIVE DigitRun(_, _)
DigitRun(s, i) == IF i <= Len(s) /\ IsDigit(s[i]) THEN 1 + DigitRun(s, i + 1) ELSE 0

RECURSIVE SpaceRun(_, _)
SpaceRun(s, i) == IF i <= Len(s) /\ IsSpace(s[i]) THEN 1 + SpaceRun(s, i + 1) ELSE 0

\* the legend pattern with (\S+) for the name: its first word only
LegendMatch_FirstWord(s) ==
    LET nd   == DigitRun(s, 2)
        nw   == SpaceRun(s, 2 + nd)
        rest == SubSeq(s, 2 + nd + nw, Len(s))
    IN  IF s # <<>> /\ s[1] = "C" /\ nd >= 1 /\ nw >= 1 /\ rest # <<>>
        THEN [matched |-> TRUE, cid |-> SubSeq(s, 1, 1 + nd), name |-> SplitWs(rest)[1]]
        ELSE [matched |-> FALSE]

\* re.match(r'(C\d+)\s+(.+)$', s): the match, or matched = FALSE
LegendMatch(s) ==
    LET nd   == DigitRun(s, 2)
        nw   == SpaceRun(s, 2 + nd)
        rest == SubSeq(s, 2 + nd + nw, Len(s))
    IN  IF /\ s # <<>>
           /\ s[1] = "C"
           /\ nd >= 1
           /\ nw >= 1
           /\ rest # <<>>
           /\ ~Contains(rest, NL)
        THEN [matched |-> TRUE, cid |-> SubSeq(s, 1, 1 + nd), name |-> rest]
        ELSE [matched |-> FALSE]

\* one iteration of the legend loop
LegendStep(st, line) ==
    IF StartsWith(line, MarkCandidateLegend)
    THEN [st EXCEPT !.in_legend = TRUE]
    ELSE IF ~st.in_legend THEN st
    ELSE IF Strip(line) = <<>> \/ StartsWith(line, MarkExplanation)
    THEN [st EXCEPT !.in_legend = FALSE]
    ELSE IF StartsWith(line, LegendRule) THEN st
    ELSE LET m == LegendMatch(Strip(line))
         IN  IF m.matched
             THEN [st EXCEPT !.legend = DictSet(st.legend, m.cid, Strip(m.name)),
                             !.cids = Append(st.cids, m.cid)]
             ELSE st

\* the legend loop from line k on (the comparison of the two states only
\* makes the evaluation of each step strict)
RECURSIVE LegendLoop(_, _, _)
LegendLoop(lines, k, st) ==
    IF k > Len(lines) THEN st
    ELSE LET new == LegendStep(st, lines[k])
         IN  IF new = st THEN LegendLoop(lines, k + 1, st)
             ELSE LegendLoop(lines, k + 1, new)

\* the legend loop over a whole file; cids lists the ID of every legend line
\* the loop stored, in the order of the lines
LegendOf(lines) ==
    LegendLoop(lines, 1, [in_legend |-> FALSE, legend |-> <<>>, cids |-> <<>>])

ParseLegend(lines) == LegendOf(lines).legend

\* [cid.strip() for cid in s.split('>')]
SplitIds(s) == LET parts == Split(s, ">") IN [k \in 1..Len(parts) |-> Strip(parts[k])]

\* [x for x in s if x]
RECURSIVE NonEmpty(_)
NonEmpty(s) ==
    IF s = <<>> THEN <<>>
    ELSE IF s[1] = <<>> THEN NonEmpty(Tail(s))
    ELSE <<s[1]>> \o NonEmpty(Tail(s))

\* the parse that reads (exact match) as the empty ranking
ParseRanking_ExactAsEmpty(ranking_str, current_prefix) ==
    IF ranking_str = EmptyMarker \/ ranking_str = MarkExactMatch THEN <<>>
    ELSE IF StartsWith(ranking_str, MarkEllipsis)
    THEN current_prefix
             \o SplitWs(Strip(Replace(Replace(ranking_str, MarkEllipsis, <<>>),
                                      <<">">>, <<" ">>)))
    ELSE NonEmpty(SplitIds(ranking_str))

\* the parse that puts current_prefix before a full ranking too
ParseRanking_PrefixLeaks(ranking_str, current_prefix) ==
    IF ranking_str = EmptyMarker THEN <<>>
    ELSE IF ranking_str = MarkExactMatch THEN current_prefix
    ELSE IF StartsWith(ranking_str, MarkEllipsis)
    THEN LET suffix_str == Strip(Replace(Replace(ranking_str, MarkEllipsis, <<>>),
                                         <<">">>, <<" ">>))
         IN  IF suffix_str # <<>>
             THEN current_prefix \o SplitWs(suffix_str)
             ELSE current_prefix
    ELSE current_prefix \o NonEmpty(SplitIds(ranking_str))

\* the IDs a ranking_str stands for, under current_prefix
ParseRanking(ranking_str, current_prefix) ==
    IF ranking_str = EmptyMarker THEN <<>>
    ELSE IF ranking_str = MarkExactMatch THEN current_prefix
    ELSE IF StartsWith(ranking_str, MarkEllipsis)
    THEN LET suffix_str == Strip(Replace(Replace(ranking_str, MarkEllipsis, <<>>),
                                         <<">">>, <<" ">>))
         IN  IF suffix_str # <<>>
             THEN current_prefix \o SplitWs(suffix_str)
             ELSE current_prefix
    ELSE NonEmpty(SplitIds(ranking_str))

\* profile[ranking_names] = count
StoreCount(profile, ranking_names, count) == DictSet(profile, ranking_names, count)

\* the data line step that takes a count that is not an integer for 0
DataLineStep_BadCountAsZero(st, line, legend) ==
    LET parts == Split(line, ":")
    IN  IF Len(parts) # 2 THEN st
        ELSE LET ranking_str == Strip(parts[1])
                 count_str   == Strip(parts[2])
                 count   == IF IsIntLiteral(count_str) THEN ParseInt(count_str) ELSE 0
                 ranking == ParseRanking(ranking_str, st.current_prefix)
             IN  IF \E k \in 1..Len(ranking) : ~DictHas(legend, ranking[k])
                 THEN [st EXCEPT !.failed = TRUE]
                 ELSE LET ranking_names ==
                              [k \in 1..Len(ranking) |-> DictGet(legend, ranking[k])]
                      IN  [st EXCEPT
                              !.profile = StoreCount(st.profile, ranking_names, count),
                              !.entries = Append(st.entries, <<ranking_names, count>>)]

\* a data line of the profile section: ranking_str : count_str
DataLineStep(st, line, legend) ==
    LET parts == Split(line, ":")
    IN  IF Len(parts) # 2 THEN st
        ELSE LET ranking_str == Strip(parts[1])
                 count_str   == Strip(parts[2])
             IN  IF ~IsIntLiteral(count_str) THEN st
                 ELSE LET count   == ParseInt(count_str)
                          ranking == ParseRanking(ranking_str, st.current_prefix)
                      IN  IF \E k \in 1..Len(ranking) : ~DictHas(legend, ranking[k])
                          THEN [st EXCEPT !.failed = TRUE]
                          ELSE LET ranking_names ==
                                       [k \in 1..Len(ranking) |-> DictGet(legend, ranking[k])]
                               IN  [st EXCEPT
                                       !.profile = StoreCount(st.profile, ranking_names, count),
                                       !.entries = Append(st.entries, <<ranking_names, count>>)]

\* the iteration that does not look at in_profile
ProfileStep_NoGate(st, line, legend) ==
    IF st.stopped \/ st.failed THEN st
    ELSE IF StartsWith(line, MarkPreferenceProfile) THEN [st EXCEPT !.in_profile = TRUE]
    ELSE IF StartsWith(line, MarkEndOfAbstract) THEN [st EXCEPT !.stopped = TRUE]
    ELSE IF StartsWith(line, MarkPrefix)
    THEN LET prefix_str == Strip(Replace(line, MarkPrefix, <<>>))
         IN  [st EXCEPT !.current_prefix =
                 IF prefix_str # <<>> THEN SplitIds(prefix_str) ELSE <<>>]
    ELSE IF Contains(line, ":") THEN DataLineStep(st, line, legend)
    ELSE st

\* one iteration of the profile loop; stopped: the loop was left by break,
\* failed: candidate_legend[cid] raised KeyError
ProfileStep(st, line, legend) ==
    IF st.stopped \/ st.failed THEN st
    ELSE IF StartsWith(line, MarkPreferenceProfile) THEN [st EXCEPT !.in_profile = TRUE]
    ELSE IF StartsWith(line, MarkEndOfAbstract) THEN [st EXCEPT !.stopped = TRUE]
    ELSE IF ~st.in_profile THEN st
    ELSE IF StartsWith(line, MarkPrefix)
    THEN LET prefix_str == Strip(Replace(line, MarkPrefix, <<>>))
         IN  [st EXCEPT !.current_prefix =
                 IF prefix_str # <<>> THEN SplitIds(prefix_str) ELSE <<>>]
    ELSE IF Contains(line, ":") THEN DataLineStep(st, line, legend)
    ELSE st

\* the profile loop from line k on; it ends at break or at an exception
RECURSIVE ProfileLoop(_, _, _, _)
ProfileLoop(lines, k, st, legend) ==
    IF k > Len(lines) THEN st
    ELSE LET new == ProfileStep(st, lines[k], legend)
         IN  IF new.stopped \/ new.failed THEN new
             ELSE ProfileLoop(lines, k + 1, new, legend)

ProfileStart ==
    [in_profile |-> FALSE, stopped |-> FALSE, failed |-> FALSE,
     current_prefix |-> <<>>, profile |-> <<>>, entries |-> <<>>]

\* load_abstract_profile(abstract_path): failed when it raised, else the
\* profile and the legend it returns; entries lists every store it made
load_abstract_profile(lines) ==
    LET legend == ParseLegend(lines)
        st     == ProfileLoop(lines, 1, ProfileStart, legend)
    IN  [failed |-> st.failed, profile |-> st.profile, legend |-> legend,
         entries |-> st.entries]

---------------------------------------------------------------------------
(* Round-trip verifier: load_cvr_ballots and verify_district.              *)

\* the loader that leaves out the ballots without a valid mark
load_cvr_ballots_SkipsEmpty(rows) ==
    SelectSeq([k \in 1..Len(rows) |-> RowRanking(rows[k])], LAMBDA b : b # <<>>)

load_cvr_ballots(rows) == [k \in 1..Len(rows) |-> RowRanking(rows[k])]

\* Counter(original_ballots): the distinct ballots in the order of their
\* first occurrence, each with the number of its occurrences
Counter(bs) ==
    LET firsts == {k \in 1..Len(bs) : \A j \in 1..(k - 1) : bs[j] # bs[k]}
    IN  [j \in 1..Cardinality(firsts) |->
            LET b == bs[Nth(firsts, j)]
            IN  <<b, Cardinality({k \in 1..Len(bs) : bs[k] = b})>>]

RECURSIVE SumOver(_, _, _)
SumOver(keys, d, default) ==
    IF keys = {} THEN 0
    ELSE LET key == CHOOSE x \in keys : TRUE
         IN  DictGetOr(d, key, default) + SumOver(keys \ {key}, d, default)

missing_in_abstract(original_profile, abs_profile) ==
    DictKeys(original_profile) \ DictKeys(abs_profile)

extra_in_abstract(original_profile, abs_profile) ==
    DictKeys(abs_profile) \ DictKeys(original_profile)

count_mismatches(original_profile, abs_profile) ==
    Cardinality({r \in DictKeys(original_profile) :
                    DictGet(original_profile, r) # DictGetOr(abs_profile, r, 0)})

total_original(original_profile) ==
    SumOver(DictKeys(original_profile), original_profile, 0)

total_abstract(original_profile, abs_profile) ==
    SumOver(DictKeys(original_profile), abs_profile, 0)

\* the number of rankings, and of count mismatches, that are printed
ErrorSample == 5

\* list(S)[:5] of a set: five of its elements, all of them when it has fewer
Samples(S) ==
    {T \in SUBSET S : Cardinality(T) = Min2(ErrorSample, Cardinality(S))}

\* the message verify_district prints about the rankings: the missing ones,
\* else the extra ones, else that all are present
RankingMessages(original_profile, abs_profile) ==
    LET missing == missing_in_abstract(original_profile, abs_profile)
        extra == extra_in_abstract(original_profile, abs_profile)
    IN  IF missing # {}
        THEN {[kind |-> "missing", count |-> Cardinality(missing), rankings |-> T] :
                 T \in Samples(missing)}
        ELSE IF extra # {}
        THEN {[kind |-> "extra", count |-> Cardinality(extra), rankings |-> T] :
                 T \in Samples(extra)}
        ELSE {[kind |-> "all_present", count |-> 0, rankings |-> {}]}

\* the rankings of the original whose count differs in the abstract
mismatched(original_profile, abs_profile) ==
    {r \in DictKeys(original_profile) :
        DictGet(original_profile, r) # DictGetOr(abs_profile, r, 0)}

\* the count mismatches verify_district prints: the first five it meets
MismatchMessages(original_profile, abs_profile) ==
    {{[kind |-> "count_mismatch", ranking |-> r,
       orig |-> DictGet(original_profile, r),
       abstract |-> DictGetOr(abs_profile, r, 0)] : r \in T} :
        T \in Samples(mismatched(original_profile, abs_profile))}

\* what one run of verify_district can print about discrepancies
Reports(original_profile, abs_profile) ==
    {[rankings |-> m, counts |-> c] :
        m \in RankingMessages(original_profile, abs_profile),
        c \in MismatchMessages(original_profile, abs_profile)}

\* value of exit_status while the script runs
NotExited == -1

\* nothing printed yet
NoReport == [rankings |-> [kind |-> "none", count |-> 0, rankings |-> {}], counts |-> {}]

\* the verdict without the check of the extra rankings
Verdict_NoExtraCheck(original_profile, abs_profile) ==
    /\ Cardinality(missing_in_abstract(original_profile, abs_profile)) = 0
    /\ count_mismatches(original_profile, abs_profile) = 0
    /\ total_original(original_profile) = total_abstract(original_profile, abs_profile)

\* the overall verdict of verify_district
Verdict(original_profile, abs_profile) ==
    /\ Cardinality(missing_in_abstract(original_profile, abs_profile)) = 0
    /\ Cardinality(extra_in_abstract(original_profile, abs_profile)) = 0
    /\ count_mismatches(original_profile, abs_profile) = 0
    /\ total_original(original_profile) = total_abstract(original_profile, abs_profile)

---------------------------------------------------------------------------
(* The pipeline: 3_generate_abstracts.py writes the abstract of a csv     *)
(* file, 4_verify_abstracts.py reads both files and compares.             *)

\* districts of main()
Districts == {1}

\* all sequences over S of length at most n
SeqsUpTo(S, n) == UNION {[1..k -> S] : k \in 0..n}

\* the state once RankingAbstract(district, csv_path) is constructed and
\* generate_abstract has been entered, for one csv file and one min_group_size
Constructed(d, file, mgs) ==
    /\ pc = "load_ballots"
    /\ district = d
    /\ csv_file = file
    /\ min_group_size = mgs
    /\ next_row = 1
    /\ ballots = <<>>
    /\ candidates = {}
    /\ preference_profile = <<>>
    /\ sorted_rankings = <<>>
    /\ groups = <<>>
    /\ group_i = 0
    /\ abstract_file = <<>>
    /\ tampered = FALSE
    /\ original_ballots = <<>>
    /\ abstract_profile = <<>>
    /\ candidate_legend = <<>>
    /\ verdict = "none"
    /\ report = NoReport
    /\ district_files = <<>>
    /\ results = <<>>
    /\ exit_status = NotExited

Init ==
    \E d \in Districts, file \in SeqsUpTo(Rows, MaxBallots), mgs \in 0..MaxMinGroupSize :
        Constructed(d, file, mgs)

\* load_ballots: one iteration of the loop over the rows
LoadBallot ==
    /\ pc = "load_ballots"
    /\ next_row <= Len(csv_file)
    /\ IF RowRaises(csv_file[next_row])
       THEN \* the candidates met before the None are already in self.candidates
            /\ candidates' = ReadRow([ballots |-> ballots, candidates |-> candidates,
                                      profile |-> preference_profile],
                                     BeforeRaise(csv_file[next_row])).candidates
            /\ pc' = "load_raised"
            /\ UNCHANGED <<ballots, preference_profile, next_row>>
       ELSE /\ LET st == ReadRow([ballots |-> ballots, candidates |-> candidates,
                                  profile |-> preference_profile], csv_file[next_row])
               IN  /\ ballots' = st.ballots
                   /\ candidates' = st.candidates
                   /\ preference_profile' = st.profile
            /\ next_row' = next_row + 1
            /\ UNCHANGED pc
    /\ UNCHANGED <<district, csv_file, min_group_size, sorted_rankings, groups,
                   abstract_file, tampered, original_ballots, abstract_profile,
                   candidate_legend, verdict>>
    /\ UNCHANGED <<report, mainVars, group_i>>

\* generate_abstract after load_ballots has returned: sort, group, write
WriteAbstract ==
    /\ pc = "load_ballots"
    /\ next_row > Len(csv_file)
    /\ sorted_rankings' = get_sorted_rankings(candidates, preference_profile)
    /\ groups' = generate_prefix_groups(sorted_rankings', min_group_size)
    /\ abstract_file' = AbstractLines(district, Len(ballots), Len(preference_profile),
                                      get_canonical_candidate_order(candidates),
                                      groups', sorted_rankings')
    /\ pc' = "written"
    /\ UNCHANGED <<district, csv_file, min_group_size, next_row, ballots, candidates,
                   preference_profile, tampered, original_ballots, abstract_profile,
                   candidate_legend, verdict>>
    /\ UNCHANGED <<report, mainVars, group_i>>

\* verify_district: original_ballots = load_cvr_ballots(csv_path)
LoadCvrBallots ==
    /\ pc = "written"
    /\ original_ballots' = load_cvr_ballots(csv_file)
    /\ pc' = "load_abstract"
    /\ UNCHANGED <<district, csv_file, min_group_size, next_row, ballots, candidates,
                   preference_profile, sorted_rankings, groups, abstract_file, tampered,
                   abstract_profile, candidate_legend, verdict>>
    /\ UNCHANGED <<report, mainVars, group_i>>

\* verify_district: abstract_profile, candidate_legend = load_abstract_profile(..);
\* a KeyError leaves verify_district and the script
LoadAbstractProfile ==
    /\ pc = "load_abstract"
    /\ LET r == load_abstract_profile(abstract_file)
       IN  IF r.failed
           THEN /\ pc' = "raised"
                /\ UNCHANGED <<abstract_profile, candidate_legend>>
           ELSE /\ pc' = "compare"
                /\ abstract_profile' = r.profile
                /\ candidate_legend' = r.legend
    /\ UNCHANGED <<district, csv_file, min_group_size, next_row, ballots, candidates,
                   preference_profile, sorted_rankings, groups, abstract_file, tampered,
                   original_ballots, verdict>>
    /\ UNCHANGED <<report, mainVars, group_i>>

\* verify_district: the comparison and the return value
Compare ==
    /\ pc = "compare"
    /\ verdict' = IF Verdict(Counter(original_ballots), abstract_profile)
                  THEN "pass" ELSE "fail"
    /\ report' \in Reports(Counter(original_ballots), abstract_profile)
    /\ pc' = "done"
    /\ UNCHANGED <<district, csv_file, min_group_size, next_row, ballots, candidates,
                   preference_profile, sorted_rankings, groups, abstract_file, tampered,
                   original_ballots, abstract_profile, candidate_legend>>
    /\ UNCHANGED <<mainVars, group_i>>

Next ==
    \/ LoadBallot
    \/ WriteAbstract
    \/ LoadCvrBallots
    \/ LoadAbstractProfile
    \/ Compare

Spec == Init /\ [][Next]_vars

---------------------------------------------------------------------------
(* The abstract is an archival file: between the run of the generator and *)
(* the run of the verifier the lines of its groups may be altered, by a   *)
(* line inserted or a line lost.                                           *)

\* the lines an alteration inserts
TamperLines == {
    <<"C", "0", "1", " ", ":", " ", "7", "\n">>,
    <<" ", " ", ".", ".", ".", " ", ">", " ", "C", "0", "2", " ", ":", " ", "2", "\n">>,
    <<"(", "e", "m", "p", "t", "y", ")", " ", ":", " ", "5", "\n">> }

\* position of the first line equal to line
LineNo(lines, line) ==
    CHOOSE k \in 1..Len(lines) :
        lines[k] = line /\ \A j \in 1..(k - 1) : lines[j] # line

InsertAt(lines, k, line) ==
    SubSeq(lines, 1, k - 1) \o <<line>> \o SubSeq(lines, k, Len(lines))

DeleteAt(lines, k) == SubSeq(lines, 1, k - 1) \o SubSeq(lines, k + 1, Len(lines))

\* the lines of the groups: after the marker, its rule and the blank line,
\* before the blank line and the rule that precede END OF ABSTRACT
FirstGroupLine(lines) == LineNo(lines, PreferenceProfileLine) + 3

LastGroupLine(lines) == LineNo(lines, EndOfAbstractLine) - 3

\* a line is inserted among the lines of the groups, or right after them
InsertLine ==
    /\ pc = "written"
    /\ ~tampered
    /\ \E k \in FirstGroupLine(abstract_file)..(LastGroupLine(abstract_file) + 1),
          line \in TamperLines :
            abstract_file' = InsertAt(abstract_file, k, line)
    /\ tampered' = TRUE
    /\ UNCHANGED <<pc, district, csv_file, min_group_size, next_row, ballots, candidates,
                   preference_profile, sorted_rankings, groups, original_ballots,
                   abstract_profile, candidate_legend, verdict>>
    /\ UNCHANGED <<report, mainVars, group_i>>

\* one of the lines of the groups is lost
DeleteLine ==
    /\ pc = "written"
    /\ ~tampered
    /\ \E k \in FirstGroupLine(abstract_file)..LastGroupLine(abstract_file) :
            abstract_file' = DeleteAt(abstract_file, k)
    /\ tampered' = TRUE
    /\ UNCHANGED <<pc, district, csv_file, min_group_size, next_row, ballots, candidates,
                   preference_profile, sorted_rankings, groups, original_ballots,
                   abstract_profile, candidate_legend, verdict>>
    /\ UNCHANGED <<report, mainVars, group_i>>

InitTamper ==
    \E d \in Districts, file \in SeqsUpTo(Rows, MaxTamperBallots),
       mgs \in 0..MaxMinGroupSize :
        Constructed(d, file, mgs)

SpecTamper == InitTamper /\ [][Next \/ InsertLine \/ DeleteLine]_vars

---------------------------------------------------------------------------
(* Stray formatting: a data line whose count is not an integer finds its  *)
(* way among the lines of the groups.                                      *)

\* data lines whose text after the colon is not an integer
BadCountLines == {
    <<"C", "0", "1", " ", ":", " ", "x", "\n">>,
    <<" ", " ", ".", ".", ".", " ", ">", " ", "C", "0", "2", " ", ":", " ", "\n">>,
    <<" ", " ", "(", "e", "x", "a", "c", "t", " ", "m", "a", "t", "c", "h", ")", " ", ":", " ", "1", ".", "5", "\n">>,
    <<"C", "0", "9", " ", ":", " ", "7", "a", "\n">> }

InsertBadCountLine ==
    /\ pc = "written"
    /\ ~tampered
    /\ \E k \in FirstGroupLine(abstract_file)..(LastGroupLine(abstract_file) + 1),
          line \in BadCountLines :
            abstract_file' = InsertAt(abstract_file, k, line)
    /\ tampered' = TRUE
    /\ UNCHANGED <<pc, district, csv_file, min_group_size, next_row, ballots, candidates,
                   preference_profile, sorted_rankings, groups, original_ballots,
                   abstract_profile, candidate_legend, verdict>>
    /\ UNCHANGED <<report, mainVars, group_i>>

SpecBadCount == InitTamper /\ [][Next \/ InsertBadCountLine]_vars

---------------------------------------------------------------------------
(* A corrupted legend: a line is inserted among the lines of the legend.  *)

\* the legend lines an alteration inserts
LegendTamperLines == {
    <<"C", "0", "1", " ", " ", "B", "o", "\n">>,
    <<"C", "0", "2", " ", " ", "A", "l", "\n">> }

\* the first line after the legend header and its rule
FirstLegendLine(lines) == LineNo(lines, CandidateLegendLine) + 2

\* the blank line that ends the legend
LegendEnd(lines) ==
    CHOOSE k \in FirstLegendLine(lines)..Len(lines) :
        /\ lines[k] = BlankLine
        /\ \A j \in FirstLegendLine(lines)..(k - 1) : lines[j] # BlankLine

InsertLegendLine ==
    /\ pc = "written"
    /\ ~tampered
    /\ \E k \in FirstLegendLine(abstract_file)..LegendEnd(abstract_file),
          line \in LegendTamperLines :
            abstract_file' = InsertAt(abstract_file, k, line)
    /\ tampered' = TRUE
    /\ UNCHANGED <<pc, district, csv_file, min_group_size, next_row, ballots, candidates,
                   preference_profile, sorted_rankings, groups, original_ballots,
                   abstract_profile, candidate_legend, verdict>>
    /\ UNCHANGED <<report, mainVars, group_i>>

SpecLegend == InitTamper /\ [][Next \/ InsertLegendLine]_vars

---------------------------------------------------------------------------
(* csv files over four candidates, some of them with a short row: a row   *)
(* with fewer fields than the header, whose missing fields read as None.  *)

\* a row with the given marks at Rank 1, Rank 2, Rank 3 and rest elsewhere
MarkedRow(first, second, third, rest) ==
    [c \in {RankCol[k] : k \in 1..6} |->
        CASE c = "Rank 1" -> first
          [] c = "Rank 2" -> second
          [] c = "Rank 3" -> third
          [] OTHER -> rest]

\* rows for the rankings (Al, Al B), (Al, Al B, Bo), (Al, Bo), (Al, Col), and
\* the short row 'Bo,Al'
MoreRows ==
    LET Col == <<"C", "o", "l">>
    IN  { MarkedRow(Al, AlB, NoMark, NoMark),
          MarkedRow(Al, AlB, Bo, NoMark),
          MarkedRow(Al, Bo, NoMark, NoMark),
          MarkedRow(Al, Col, NoMark, NoMark),
          MarkedRow(Bo, Al, None, None) }

InitRows ==
    \E d \in Districts, file \in SeqsUpTo(MoreRows, MaxRowsBallots),
       mgs \in 0..MaxMinGroupSize :
        Constructed(d, file, mgs)

SpecRows == InitRows /\ [][Next]_vars

---------------------------------------------------------------------------
(* The example scenario of the specification: 100 ballots over the        *)
(* candidates A < B < C, profile {(A): 5, (A,B): 50, (A,C): 45},          *)
(* min_group_size = 2.                                                     *)

CandA == <<"A">>
CandB == <<"B">>
CandC == <<"C">>

\* the instance on the csv file of the example: 50 ballots (A, B), 5 ballots (A)
\* and 45 ballots (A, C)
InitExample ==
    Constructed(1,
                [k \in 1..100 |->
                    IF k <= 50 THEN MarkedRow(CandA, CandB, NoMark, NoMark)
                    ELSE IF k <= 55 THEN MarkedRow(CandA, NoMark, NoMark, NoMark)
                    ELSE MarkedRow(CandA, CandC, NoMark, NoMark)],
                2)

SpecExample == InitExample /\ [][Next]_vars

---------------------------------------------------------------------------
(* A profile as long as the look-ahead window: 200 ballots with 200       *)
(* rankings that all start with the same candidate.                        *)

\* row k of the file: Al, then two of sixteen two-letter names
WindowRow(k) ==
    LET letters == <<"B", "C", "l", "o">>
        name(n) == <<letters[(n \div 4) + 1], letters[(n % 4) + 1]>>
    IN  MarkedRow(Al, name((k - 1) \div 16), name((k - 1) % 16), NoMark)

InitWindow ==
    \E d \in Districts, mgs \in {LookaheadWindow - 1, LookaheadWindow} :
        Constructed(d, [k \in 1..LookaheadWindow |-> WindowRow(k)], mgs)

\* the run of 3_generate_abstracts.py on that file
SpecWindow == InitWindow /\ [][LoadBallot \/ WriteAbstract]_vars

---------------------------------------------------------------------------
(* main of 4_verify_abstracts.py: verify_district for each district in    *)
(* turn, each with the csv file and the abstract found on disk, then the  *)
(* exit status.                                                            *)

\* districts of main()
VerifyDistricts == <<1, 2, 3, 4>>

\* min_group_size of the abstracts generate_abstract writes: the default
DefaultMinGroupSize == 20

\* the abstract 3_generate_abstracts.py writes for a csv file
GeneratedAbstract(d, file) ==
    LET st == load_ballots(file)
    IN  AbstractText(d, Len(st.ballots), st.candidates, st.profile, DefaultMinGroupSize)

\* the files of one district: its csv file with the abstract of that file, or
\* of the csv file of another election, or an abstract with a data line that
\* names an ID no legend of the model holds
MainFilePairs(d) ==
    LET csv == <<MarkedRow(Al, NoMark, NoMark, NoMark)>>
        other == <<MarkedRow(Al, AlB, NoMark, NoMark), MarkedRow(Al, NoMark, NoMark, NoMark)>>
        unknown == <<"C", "0", "9", " ", ":", " ", "1", "\n">>
    IN  {[csv |-> csv, abstract |-> a] :
            a \in UNION {{g[csv], g[other], InsertAt(g[csv], FirstGroupLine(g[csv]), unknown)} :
                            g \in {[file \in {csv, other} |-> GeneratedAbstract(d, file)]}}}

InitMain ==
    /\ pc = "main"
    /\ district_files = <<>>
    /\ results = <<>>
    /\ exit_status = NotExited
    /\ district = 0
    /\ csv_file = <<>>
    /\ min_group_size = DefaultMinGroupSize
    /\ next_row = 1
    /\ ballots = <<>>
    /\ candidates = {}
    /\ preference_profile = <<>>
    /\ sorted_rankings = <<>>
    /\ groups = <<>>
    /\ group_i = 0
    /\ abstract_file = <<>>
    /\ tampered = FALSE
    /\ original_ballots = <<>>
    /\ abstract_profile = <<>>
    /\ candidate_legend = <<>>
    /\ verdict = "none"
    /\ report = NoReport

\* before 4_verify_abstracts.py runs: the csv file and the abstract of the next
\* district are put in place
PlaceDistrictFiles ==
    /\ pc = "main"
    /\ Len(district_files) < Len(VerifyDistricts)
    /\ \E p \in MainFilePairs(VerifyDistricts[Len(district_files) + 1]) :
           district_files' = Append(district_files, p)
    /\ UNCHANGED <<district, csv_file, min_group_size, next_row, ballots, candidates,
                   preference_profile, sorted_rankings, groups, group_i, abstract_file, tampered,
                   original_ballots, abstract_profile, candidate_legend, verdict,
                   report, results, exit_status, pc>>

\* main: results[district] = verify_district(district) for the next district.
\* A KeyError of load_abstract_profile is caught nowhere: it ends the script,
\* and the interpreter exits with status 1.
MainVerifyDistrict ==
    /\ pc = "main"
    /\ Len(district_files) = Len(VerifyDistricts)
    /\ Len(results) < Len(VerifyDistricts)
    /\ LET d == VerifyDistricts[Len(results) + 1]
           files == district_files[d]
       IN  /\ district' = d
           /\ csv_file' = files.csv
           /\ abstract_file' = files.abstract
           /\ original_ballots' = load_cvr_ballots(files.csv)
           /\ \E r \in {load_abstract_profile(files.abstract)} :
                 IF r.failed
                 THEN /\ pc' = "raised"
                      /\ exit_status' = 1
                      /\ UNCHANGED <<abstract_profile, candidate_legend, verdict, report,
                                     results>>
                 ELSE /\ abstract_profile' = r.profile
                      /\ candidate_legend' = r.legend
                      /\ \E original_profile \in {Counter(original_ballots')} :
                            /\ verdict' = IF Verdict(original_profile, abstract_profile')
                                          THEN "pass" ELSE "fail"
                            /\ report' \in Reports(original_profile, abstract_profile')
                      /\ results' = DictSet(results, d, verdict' = "pass")
                      /\ UNCHANGED <<pc, exit_status>>
    /\ UNCHANGED <<min_group_size, next_row, ballots, candidates, preference_profile,
                   sorted_rankings, groups, group_i, tampered, district_files>>

\* the exit status with only the last district looked at
MainExitStatus_LastOnly(res) == IF res[Len(res)][2] THEN 0 ELSE 1

\* main: return 0 if all(results.values()) else 1
MainExitStatus(res) == IF \A k \in 1..Len(res) : res[k][2] THEN 0 ELSE 1

\* main: the summary and the return; exit(main())
MainReturn ==
    /\ pc = "main"
    /\ Len(results) = Len(VerifyDistricts)
    /\ exit_status' = MainExitStatus(results)
    /\ pc' = "exited"
    /\ UNCHANGED <<district, csv_file, min_group_size, next_row, ballots, candidates,
                   preference_profile, sorted_rankings, groups, group_i, abstract_file, tampered,
                   original_ballots, abstract_profile, candidate_legend, verdict,
                   report, district_files, results>>

SpecMain == InitMain /\ [][PlaceDistrictFiles \/ MainVerifyDistrict \/ MainReturn]_vars

---------------------------------------------------------------------------
(* Properties.                                                             *)

Written == pc \notin {"load_ballots", "load_raised"}

Decoded == pc \in {"compare", "done"}

\* some group has a prefix
SomePrefixGroup == \E g \in 1..Len(groups) : Len(groups[g][1]) > 0

\* the members of all groups, in group order
RECURSIVE Members(_)
Members(gs) == IF gs = <<>> THEN <<>> ELSE gs[1][2] \o Members(Tail(gs))

\* the candidates named in the rankings of a profile
NamesIn(profile) ==
    UNION {{profile[k][1][j] : j \in 1..Len(profile[k][1])} : k \in 1..Len(profile)}

\* C1: round trip. Parsing the abstract that generate_abstract wrote, for any
\* csv file and any min_group_size, never raises and returns a profile equal
\* to the preference profile, ranking for ranking and count for count.
C1_RoundTrip ==
    /\ pc # "raised"
    /\ Decoded => DictEq(abstract_profile, preference_profile)

\* C1 witness: a decoded abstract with a prefix group, an empty ranking and
\* at least three distinct rankings
C1_Witness ==
    /\ Decoded
    /\ SomePrefixGroup
    /\ DictHas(preference_profile, <<>>)
    /\ Len(abstract_profile) >= 3

\* C2: coverage. The members of the groups returned by generate_prefix_groups,
\* concatenated in group order, are the sorted profile exactly.
C2_Coverage == Written => Members(groups) = sorted_rankings

\* C2 witness: a prefix group that the extension loop made longer than
\* min_group_size, beside another group
C2_Witness ==
    /\ pc = "written"
    /\ min_group_size >= 1
    /\ Len(groups) >= 2
    /\ \E g \in 1..Len(groups) :
          /\ Len(groups[g][1]) > 0
          /\ Len(groups[g][2]) > min_group_size

\* C3: prefix validity. Every member of every group equals the prefix of the
\* group or starts with it and is strictly longer.
C3_PrefixValidity ==
    Written =>
        \A g \in 1..Len(groups) : \A m \in 1..Len(groups[g][2]) :
            LET prefix == groups[g][1]
                r == groups[g][2][m][1]
            IN  \/ r = prefix
                \/ Len(r) > Len(prefix) /\ SubSeq(r, 1, Len(prefix)) = prefix

\* C3 witness: a group with a two-candidate prefix holding the prefix itself
\* and a longer ranking, followed by an entry that does not share the prefix
C3_Witness ==
    /\ pc = "written"
    /\ \E g \in 1..Len(groups) :
          /\ Len(groups[g][1]) = 2
          /\ groups[g][2][1][1] = groups[g][1]
          /\ Len(groups[g][2][2][1]) > 2
          /\ g < Len(groups)

\* the rows of a file in the order perm
Permuted(file, perm) == [k \in 1..Len(file) |-> file[perm[k]]]

\* C4: order invariance. For every permutation of the rows of the csv file,
\* load_ballots builds the same preference profile and candidate set, and
\* generate_abstract writes the same text.
C4_OrderInvariance ==
    pc = "written" =>
        \A perm \in Permutations(1..Len(csv_file)) :
            LET other == load_ballots(Permuted(csv_file, perm))
            IN  /\ DictEq(other.profile, preference_profile)
                /\ other.candidates = candidates
                /\ AbstractText(district, Len(other.ballots), other.candidates,
                                other.profile, min_group_size) = abstract_file

\* C4 witness: an abstract of a file whose rankings were met in an order
\* that is not the sorted order
C4_Witness ==
    /\ pc = "written"
    /\ Len(preference_profile) >= 3
    /\ preference_profile # sorted_rankings
    /\ SomePrefixGroup

\* C5: idempotence. Encoding the decoded profile again, with the same
\* min_group_size, writes the text of the abstract again, totals included.
C5_Idempotence ==
    Decoded =>
        AbstractText(district, SumValues(abstract_profile), NamesIn(abstract_profile),
                     abstract_profile, min_group_size) = abstract_file

\* C5 witness: a decoded profile, with a prefix group, whose order is not
\* the order in which the generator met the rankings
C5_Witness ==
    /\ Decoded
    /\ SomePrefixGroup
    /\ Len(abstract_profile) >= 3
    /\ abstract_profile # preference_profile

\* C6: verify_district returns pass exactly when the reconstructed profile
\* equals the original profile: the same rankings with the same counts. A
\* missing ranking, an extra ranking or a different count makes it fail.
C6_VerdictIffEqual ==
    pc = "done" =>
        (verdict = "pass" <=> DictEq(Counter(original_ballots), abstract_profile))

\* C6 witness: a failed verification of an altered abstract whose only
\* discrepancy is an extra ranking
C6_Witness ==
    /\ pc = "done"
    /\ tampered
    /\ verdict = "fail"
    /\ extra_in_abstract(Counter(original_ballots), abstract_profile) # {}
    /\ missing_in_abstract(Counter(original_ballots), abstract_profile) = {}
    /\ count_mismatches(Counter(original_ballots), abstract_profile) = 0

\* the line of the empty ranking
EmptyRankingLine(count) == EmptyMarker \o CountSep \o IntToStr(count) \o <<NL>>

\* line e lies under a PREFIX header: no blank line since that header
InPrefixGroup(lines, e) ==
    \E h \in 1..(e - 1) :
        /\ StartsWith(lines[h], PrefixLabel)
        /\ \A j \in h..e : lines[j] # BlankLine

\* what the decoder stores for one line of the profile section met while
\* current_prefix is cp
StoredFor(line, cp, legend) ==
    ProfileStep([ProfileStart EXCEPT !.in_profile = TRUE, !.current_prefix = cp],
                line, legend).entries

\* C7: the empty ranking is emitted standalone. When the profile holds the
\* empty ranking, generate_prefix_groups puts it in a singleton group with
\* empty prefix and in no other group, the abstract holds the line
\* "(empty) : count" outside every PREFIX group, the decoder reads that line
\* as the empty ranking whatever current_prefix is, and the decoded profile
\* gives the empty ranking its count.
C7_EmptyStandalone ==
    (Written /\ DictHas(preference_profile, <<>>)) =>
        LET count == DictGet(preference_profile, <<>>)
            legend == ParseLegend(abstract_file)
        IN  /\ \E g \in 1..Len(groups) : groups[g] = <<<<>>, <<<<<<>>, count>>>>>>
            /\ \A g \in 1..Len(groups) : \A m \in 1..Len(groups[g][2]) :
                   groups[g][2][m][1] = <<>> =>
                       (groups[g][1] = <<>> /\ Len(groups[g][2]) = 1)
            /\ \E e \in FirstGroupLine(abstract_file)..LastGroupLine(abstract_file) :
                   /\ abstract_file[e] = EmptyRankingLine(count)
                   /\ ~InPrefixGroup(abstract_file, e)
            /\ \A cp \in {<<>>, <<<<"C", "0", "1">>>>} :
                   StoredFor(EmptyRankingLine(count), cp, legend) = <<<<<<>>, count>>>>
            /\ Decoded => DictGetOr(abstract_profile, <<>>, 0) = count

\* C7 witness: a decoded abstract whose profile holds the empty ranking
\* beside a prefix group, with min_group_size 2
C7_Witness ==
    /\ Decoded
    /\ DictHas(preference_profile, <<>>)
    /\ SomePrefixGroup
    /\ min_group_size = 2

\* C8: a sorted profile with fewer entries than min_group_size never groups:
\* one singleton group with empty prefix per entry, in sorted order.
C8_BelowThresholdNoGroups ==
    (Written /\ Len(sorted_rankings) < min_group_size) =>
        groups = [k \in 1..Len(sorted_rankings) |-> <<<<>>, <<sorted_rankings[k]>>>>]

\* C8 witness: two entries that share their first candidate, under
\* min_group_size 3
C8_Witness ==
    /\ pc = "written"
    /\ min_group_size = 3
    /\ Len(sorted_rankings) = 2
    /\ sorted_rankings[1][1] # <<>>
    /\ sorted_rankings[1][1][1] = sorted_rankings[2][1][1]

ExampleProfile ==
    <<<<<<CandA>>, 5>>, <<<<CandA, CandB>>, 50>>, <<<<CandA, CandC>>, 45>>>>

\* C9: the example scenario. For {(A): 5, (A,B): 50, (A,C): 45} and
\* min_group_size 2 there is one group, with prefix (A), holding the three
\* entries; the group is written as "PREFIX: C01", the rule,
\* "  (exact match) : 5", "  ... > C02 : 50", "  ... > C03 : 45"; the footer
\* reports 3 ranking expressions and 100 ballots; the decoder returns the
\* original profile.
C9_ExampleScenario ==
    /\ pc # "raised"
    /\ Written =>
          /\ DictEq(preference_profile, ExampleProfile)
          /\ groups = <<<<<<CandA>>, ExampleProfile>>>>
          /\ SubSeq(abstract_file, FirstGroupLine(abstract_file),
                    LastGroupLine(abstract_file))
               = << <<"P", "R", "E", "F", "I", "X", ":", " ", "C", "0", "1", "\n">>,
                    RuleDash,
                    <<" ", " ", "(", "e", "x", "a", "c", "t", " ", "m", "a", "t", "c", "h", ")", " ", ":", " ", "5", "\n">>,
                    <<" ", " ", ".", ".", ".", " ", ">", " ", "C", "0", "2", " ", ":", " ", "5", "0", "\n">>,
                    <<" ", " ", ".", ".", ".", " ", ">", " ", "C", "0", "3", " ", ":", " ", "4", "5", "\n">>,
                    BlankLine >>
          /\ abstract_file[LineNo(abstract_file, EndOfAbstractLine) + 1]
               = <<"T", "o", "t", "a", "l", " ", "r", "a", "n", "k", "i", "n", "g", " ", "e", "x", "p", "r", "e", "s", "s", "i", "o", "n", "s", ":", " ", "3", "\n">>
          /\ abstract_file[LineNo(abstract_file, EndOfAbstractLine) + 2]
               = <<"T", "o", "t", "a", "l", " ", "b", "a", "l", "l", "o", "t", "s", ":", " ", "1", "0", "0", "\n">>
    /\ Decoded => DictEq(abstract_profile, ExampleProfile)

\* C9 witness: the example, written and decoded
C9_Witness ==
    /\ pc = "done"
    /\ Len(ballots) = 100
    /\ Len(abstract_profile) = 3

\* the sum of the counts of the data lines decoded as ranking r
RECURSIVE SumOfEntries(_, _)
SumOfEntries(entries, r) ==
    IF entries = <<>> THEN 0
    ELSE (IF entries[1][1] = r THEN entries[1][2] ELSE 0) + SumOfEntries(Tail(entries), r)

\* C10: a ranking that appears on several data lines of the profile section
\* is stored with the sum of the counts of these lines.
C10_DuplicateLinesSummed ==
    Decoded =>
        \A r \in DictKeys(abstract_profile) :
            DictGet(abstract_profile, r)
                = SumOfEntries(load_abstract_profile(abstract_file).entries, r)

\* C11: the verifier reports discrepancies in both directions. Whenever the
\* reconstruction holds rankings absent from the original, verify_district
\* prints these extra rankings, also when the original has rankings missing
\* from the reconstruction.
C11_ExtraAlwaysReported ==
    pc = "done" =>
        LET extra == extra_in_abstract(Counter(original_ballots), abstract_profile)
        IN  extra # {} =>
                /\ report.rankings.kind = "extra"
                /\ report.rankings.count = Cardinality(extra)
                /\ report.rankings.rankings # {}
                /\ report.rankings.rankings \subseteq extra

\* the csv file and the abstract of district d hold the same profile
SameProfile(d) ==
    \E r \in {load_abstract_profile(district_files[d].abstract)} :
        /\ ~r.failed
        /\ DictEq(Counter(load_cvr_ballots(district_files[d].csv)), r.profile)

\* C12: main returns 0 only when the verification of every district passed
\* and 1 when at least one failed. When it returns, every district has been
\* verified, in order, each with the result its own files deserve: a failed
\* district does not stop the later ones and their success does not mask it.
\* A status 0 is left in no other way than this return.
C12_MainExitStatus ==
    /\ pc = "exited" =>
          /\ [k \in 1..Len(results) |-> results[k][1]] = VerifyDistricts
          /\ \A k \in 1..Len(results) : results[k][2] <=> SameProfile(results[k][1])
          /\ exit_status = 0 <=> \A k \in 1..Len(results) : results[k][2]
          /\ exit_status = 1 <=> \E k \in 1..Len(results) : ~results[k][2]
    /\ exit_status = 0 => pc = "exited"
    /\ pc = "raised" => exit_status = 1

\* C12 witness: main has returned 1 after the first district failed and the
\* three later districts passed
C12_Witness ==
    /\ pc = "exited"
    /\ exit_status = 1
    /\ ~results[1][2]
    /\ \A k \in 2..4 : results[k][2]

\* the abstract as generate_abstract wrote it
WrittenAbstract ==
    AbstractLines(district, Len(ballots), Len(preference_profile),
                  get_canonical_candidate_order(candidates), groups, sorted_rankings)

\* the state of the profile loop of the decoder when it reaches line k
DecoderStateAt(lines, k) ==
    ProfileLoop(SubSeq(lines, 1, k - 1), 1, ProfileStart, ParseLegend(lines))

\* C13: a data line of the profile section whose count is not an integer is
\* skipped. The decoder does not raise; the step on that line leaves the
\* profile and current_prefix as they were; the whole file decodes to the
\* profile, the legend and the sequence of stored entries of the file
\* without that line.
C13_BadCountSkipped ==
    (Written /\ tampered) =>
        /\ pc # "raised"
        /\ \A k \in 1..Len(abstract_file) :
               (abstract_file[k] \in BadCountLines
                    /\ DeleteAt(abstract_file, k) = WrittenAbstract) =>
                   LET before == DecoderStateAt(abstract_file, k)
                       after  == ProfileStep(before, abstract_file[k],
                                             ParseLegend(abstract_file))
                   IN  /\ before.in_profile
                       /\ after.profile = before.profile
                       /\ after.current_prefix = before.current_prefix
                       /\ after = before
                       /\ load_abstract_profile(abstract_file)
                              = load_abstract_profile(WrittenAbstract)
        /\ Decoded => abstract_profile = load_abstract_profile(WrittenAbstract).profile

\* C13 witness: a decoded abstract in which a line with a count that is not
\* an integer stands inside a PREFIX group, before a line of that group
C13_Witness ==
    /\ Decoded
    /\ tampered
    /\ \E k \in 1..(Len(abstract_file) - 1) :
          /\ abstract_file[k] \in BadCountLines
          /\ DecoderStateAt(abstract_file, k).current_prefix # <<>>
          /\ StartsWith(abstract_file[k + 1], SuffixLead)

\* C14: a legend in which two lines carry the same ID makes
\* load_abstract_profile abort: it returns a legend and a profile only for a
\* file whose legend lines carry distinct IDs.
C14_DuplicateIdAborts ==
    Decoded =>
        LET cids == LegendOf(abstract_file).cids
        IN  \A i, j \in 1..Len(cids) : i # j => cids[i] # cids[j]

\* the stripped value of rank position i of a row
Marked(row, i) == Strip(row[RankCol[i]])

\* the value names a candidate: not empty, not overvote, not a write-in
NamesCandidate(v) ==
    /\ v # <<>>
    /\ v # Overvote
    /\ ~StartsWith(v, WriteInPrefix)

\* the first rank position of a row at which v is marked
FirstMark(row, v) ==
    CHOOSE i \in 1..NumRanks :
        Marked(row, i) = v /\ \A j \in 1..(i - 1) : Marked(row, j) # v

\* C15: ranking canonicalization. The ranking load_ballots builds from a row
\* has at most 6 candidates, holds no empty value, no overvote and no write-in,
\* holds no candidate twice, holds exactly the candidates marked in the row,
\* and lists them in the order of their first marks.
C15_Canonicalization ==
    \A b \in 1..Len(ballots) :
        LET row == csv_file[b]
            r == ballots[b]
        IN  /\ Len(r) <= 6
            /\ \A j \in 1..Len(r) : NamesCandidate(r[j])
            /\ \A j, k \in 1..Len(r) : j # k => r[j] # r[k]
            /\ {r[j] : j \in 1..Len(r)}
                  = {Marked(row, i) : i \in {i \in 1..NumRanks : NamesCandidate(Marked(row, i))}}
            /\ \A j, k \in 1..Len(r) : j < k => FirstMark(row, r[j]) < FirstMark(row, r[k])

\* C15 witness: the ballot of a row with an overvote, an empty position and
\* a candidate marked twice has been loaded
C15_Witness ==
    \E b \in 1..Len(ballots) :
        /\ \E i \in 1..NumRanks : Marked(csv_file[b], i) = Overvote
        /\ \E i \in 2..NumRanks : Marked(csv_file[b], i) = <<>> /\ i < NumRanks
                                      /\ Marked(csv_file[b], i + 1) # <<>>
        /\ \E i, j \in 1..NumRanks :
               i < j /\ Marked(csv_file[b], i) = Marked(csv_file[b], j)
                     /\ NamesCandidate(Marked(csv_file[b], i))
        /\ Len(ballots[b]) = 3

\* C17: the profile invariant. After any number of ballots the counts of
\* preference_profile sum to the number of ballots processed, every count is
\* at least 1, the keys are the rankings of the processed ballots, each once,
\* and the count of a key is the number of ballots that expressed it.
C17_ProfileInvariant ==
    /\ pc = "load_ballots" => Len(ballots) = next_row - 1
    /\ SumValues(preference_profile) = Len(ballots)
    /\ \A k \in 1..Len(preference_profile) : preference_profile[k][2] >= 1
    /\ \A j, k \in 1..Len(preference_profile) :
           j # k => preference_profile[j][1] # preference_profile[k][1]
    /\ DictKeys(preference_profile) = {ballots[b] : b \in 1..Len(ballots)}
    /\ \A k \in 1..Len(preference_profile) :
           preference_profile[k][2]
               = Cardinality({b \in 1..Len(ballots) : ballots[b] = preference_profile[k][1]})

\* C17 witness: three ballots processed, two of them with the same ranking,
\* one with the empty ranking
C17_Witness ==
    /\ pc = "load_ballots"
    /\ next_row = 4
    /\ Len(preference_profile) = 2
    /\ DictHas(preference_profile, <<>>)
    /\ \E k \in 1..2 : preference_profile[k][2] = 2 /\ preference_profile[k][1] # <<>>

\* 'C' followed by k zero-padded to two digits
ExpectedId(k) ==
    IF k < 10 THEN <<"C", "0", Digits[k + 1]>> ELSE <<"C">> \o IntToStr(k)

\* C18: candidate IDs. The candidate order holds every candidate once, in
\* increasing lexicographic order; the k-th candidate has the ID 'C' followed
\* by k on two digits; distinct candidates have distinct IDs; and the legend
\* load_abstract_profile parses from the abstract maps each ID back to its
\* candidate and holds nothing else.
C18_CandidateIds ==
    Written =>
        LET order == get_canonical_candidate_order(candidates)
            legend == ParseLegend(abstract_file)
        IN  /\ {order[k] : k \in 1..Len(order)} = candidates
            /\ Len(order) = Cardinality(candidates)
            /\ \A k \in 1..(Len(order) - 1) : StrLess(order[k], order[k + 1])
            /\ \A k \in 1..Len(order) : CandidateId(order, order[k]) = ExpectedId(k)
            /\ \A c, d \in candidates :
                   c # d => CandidateId(order, c) # CandidateId(order, d)
            /\ legend = [k \in 1..Len(order) |-> <<CandidateId(order, order[k]), order[k]>>]
            /\ Decoded => candidate_legend = legend

\* C18 witness: a decoded abstract of three candidates, one of them a strict
\* prefix of another, met in an order that is not the lexicographic order
C18_Witness ==
    /\ Decoded
    /\ candidates = {Al, AlB, Bo}
    /\ ballots[1] = <<Bo>>

\* C16: canonicalizing a ballot row never raises: load_ballots takes every
\* position that is empty, missing or absent for no mark and goes on.
C16_LoadNeverRaises == pc # "load_raised"

\* ranking r starts with prefix p
StartsWithPrefix(r, p) == Len(r) >= Len(p) /\ SubSeq(r, 1, Len(p)) = p

\* C19: for every group with a non-empty prefix p, every entry of the sorted
\* profile whose ranking starts with p is a member of that group.
C19_PrefixNotSplit ==
    Written =>
        \A g \in 1..Len(groups) :
            groups[g][1] # <<>> =>
                \A k \in 1..Len(sorted_rankings) :
                    StartsWithPrefix(sorted_rankings[k][1], groups[g][1]) =>
                        \E m \in 1..Len(groups[g][2]) : groups[g][2][m] = sorted_rankings[k]

\* C20: at cursor i the look-ahead evaluates every end-point from
\* i + min_group_size to min(i + 200, N), both included. At the first cursor:
\* when the first end entries of the sorted profile, for some end-point end of
\* that window, have a common prefix, the first group has a prefix; so a group
\* is formed when min_group_size is 200 and 200 entries share a prefix.
C20_WindowEndInclusive ==
    (Written /\ sorted_rankings # <<>>) =>
        LET N == Len(sorted_rankings)
            ends == min_group_size..Min2(LookaheadWindow, N)
        IN  (\E end \in ends :
                find_common_prefix(RankingsOnly(PySlice(sorted_rankings, 0, end)), 0, end)
                    # <<>>)
                => groups[1][1] # <<>>

\* the cursor at which group g starts: the number of entries of the groups before it
GroupStart(g) == RankingCount(SubSeq(groups, 1, g - 1))

\* the longest sequence every ranking of rs starts with
LongestCommonPrefix(rs) ==
    LET lens == {n \in 0..Len(rs[1]) :
                    \A k \in 1..Len(rs) : StartsWithPrefix(rs[k], SubSeq(rs[1], 1, n))}
    IN  SubSeq(rs[1], 1, CHOOSE n \in lens : \A m \in lens : m <= n)

\* C21: with min_group_size >= 2, for every group with a non-empty prefix,
\* formed at cursor i: the end-point the look-ahead chose is i + min_group_size;
\* the prefix of the group is the longest common prefix of the entries
\* i .. i + min_group_size - 1; no end-point of the window has a longer common
\* prefix; and a look-ahead that stops after the first end-point chooses the same.
C21_SmallestEndWins ==
    (Written /\ min_group_size >= 2) =>
        \A g \in 1..Len(groups) :
            groups[g][1] # <<>> =>
                LET i == GroupStart(g)
                    entries(end) == RankingsOnly(PySlice(sorted_rankings, i, end))
                    best == BestGrouping(sorted_rankings, i, min_group_size)
                IN  /\ best.end = i + min_group_size
                    /\ best.prefix = groups[g][1]
                    /\ groups[g][1] = LongestCommonPrefix(entries(i + min_group_size))
                    /\ \A end \in (i + min_group_size)..(LookAheadStop(sorted_rankings, i) - 1) :
                          Len(LongestCommonPrefix(entries(end))) <= Len(groups[g][1])
                    /\ best = LookAhead(sorted_rankings, i, i + min_group_size,
                                        i + min_group_size + 1,
                                        [prefix |-> <<>>, end |-> i + 1])

\* C21 witness: a group with a prefix was formed with min_group_size 2 where
\* the next end-point of the window has a common prefix of the same length
C21_Witness ==
    /\ pc = "written"
    /\ min_group_size = 2
    /\ \E g \in 1..Len(groups) :
          /\ groups[g][1] # <<>>
          /\ GroupStart(g) + 3 <= Len(sorted_rankings)
          /\ Len(LongestCommonPrefix(
                 RankingsOnly(PySlice(sorted_rankings, GroupStart(g), GroupStart(g) + 3))))
                = Len(groups[g][1])

\* C22: a group without prefix has exactly one member; a group with a prefix
\* has at least max(2, min_group_size) members, also when min_group_size is
\* 0 or 1.
C22_GroupSizes ==
    Written =>
        \A g \in 1..Len(groups) :
            IF groups[g][1] = <<>>
            THEN Len(groups[g][2]) = 1
            ELSE Len(groups[g][2]) >= Max2(2, min_group_size)

\* C22 witness: with min_group_size 0 or 1, a group with a prefix and exactly
\* two members beside a group without prefix
C22_Witness ==
    /\ pc = "written"
    /\ min_group_size \in {0, 1}
    /\ \E g \in 1..Len(groups) : groups[g][1] # <<>> /\ Len(groups[g][2]) = 2
    /\ \E g \in 1..Len(groups) : groups[g][1] = <<>>

\* the candidate indices of ranking r, by the position of the names in the
\* sorted candidate names
IndexSeq(r) ==
    [k \in 1..Len(r) |-> CandidateIdx(get_canonical_candidate_order(candidates), r[k])]

\* a comes before b lexicographically: at the first position where they
\* differ a has the smaller index, or a ends there and b does not
LexBefore(a, b) ==
    \E p \in 1..(Len(b)) :
        /\ \A q \in 1..(p - 1) : q <= Len(a) /\ a[q] = b[q]
        /\ p > Len(a) \/ a[p] < b[p]

\* C23: the sorted profile holds the entries of the preference profile, each
\* once, in lexicographic order of their candidate-index sequences; so a
\* ranking that is a strict prefix of another comes before it, the empty
\* ranking comes first, and the entries that start with a given prefix are
\* contiguous.
C23_SortedProfile ==
    Written =>
        LET N == Len(sorted_rankings)
            r(k) == sorted_rankings[k][1]
        IN  /\ N = Len(preference_profile)
            /\ \A k \in 1..N : \E j \in 1..N : preference_profile[j] = sorted_rankings[k]
            /\ \A k, l \in 1..N : k < l => LexBefore(IndexSeq(r(k)), IndexSeq(r(l)))
            /\ \A k, l \in 1..N :
                  (r(k) # r(l) /\ StartsWithPrefix(r(l), r(k))) => k < l
            /\ \A k \in 1..N : r(k) = <<>> => k = 1
            /\ \A k, l \in 1..N : \A n \in 0..Len(r(k)) :
                  (k < l /\ StartsWithPrefix(r(l), SubSeq(r(k), 1, n))) =>
                      \A m \in k..l : StartsWithPrefix(r(m), SubSeq(r(k), 1, n))

\* C23 witness: a profile met in another order than the sorted one, holding
\* the empty ranking, a ranking and a longer ranking that starts with it
C23_Witness ==
    /\ pc = "written"
    /\ preference_profile # sorted_rankings
    /\ sorted_rankings[1][1] = <<>>
    /\ \E k, l \in 1..Len(sorted_rankings) :
          /\ sorted_rankings[k][1] # <<>>
          /\ Len(sorted_rankings[l][1]) > Len(sorted_rankings[k][1])
          /\ StartsWithPrefix(sorted_rankings[l][1], sorted_rankings[k][1])

\* C24: the abstract total that verify_district compares with the original
\* total is the sum of all counts of the reconstructed profile, so a
\* reconstructed profile with an extra ranking of positive count has another
\* total than the original.
C24_TotalIsSumOfCounts ==
    pc = "done" =>
        LET original_profile == Counter(original_ballots)
        IN  /\ total_abstract(original_profile, abstract_profile) = SumValues(abstract_profile)
            /\ (\E k \in 1..Len(abstract_profile) :
                   /\ abstract_profile[k][2] > 0
                   /\ ~DictHas(original_profile, abstract_profile[k][1])
                   /\ \A j \in 1..Len(original_profile) :
                         DictGetOr(abstract_profile, original_profile[j][1], 0)
                             = original_profile[j][2])
               => total_abstract(original_profile, abstract_profile)
                      # total_original(original_profile)

\* the IDs of the most recent PREFIX: line of the profile section before
\* line k, none when there is no such line
RecentPrefix(lines, k) ==
    LET hs == {h \in (LineNo(lines, PreferenceProfileLine) + 1)..(k - 1) :
                  StartsWith(lines[h], MarkPrefix)}
        h  == CHOOSE x \in hs : \A y \in hs : y <= x
        text == Strip(SubSeq(lines[h], Len(MarkPrefix) + 1, Len(lines[h])))
    IN  IF hs = {} \/ text = <<>> THEN <<>> ELSE SplitIds(text)

\* the ranking_str of a data line with an integer count, none for other lines
RankingStr(line) ==
    LET parts == Split(line, ":")
    IN  IF Len(parts) = 2 /\ IsIntLiteral(Strip(parts[2])) /\ ~StartsWith(line, MarkPrefix)
        THEN <<Strip(parts[1])>>
        ELSE <<>>

\* C25: in the profile section, when the decoder reaches a line its
\* current_prefix is that of the most recent PREFIX: line before it; an
\* "(exact match)" line stores the ranking of that prefix and a "... >" line
\* that prefix followed by the IDs of the line; a line with a full ranking or
\* with "(empty)" stores the same ranking whatever current_prefix holds.
C25_PrefixTracking ==
    Written =>
        LET lines  == abstract_file
            legend == ParseLegend(lines)
            names(ids) == [j \in 1..Len(ids) |-> DictGet(legend, ids[j])]
            known(ids) == \A j \in 1..Len(ids) : DictHas(legend, ids[j])
        IN  \A k \in (LineNo(lines, PreferenceProfileLine) + 1)
                         ..(LineNo(lines, EndOfAbstractLine) - 1) :
                LET before == DecoderStateAt(lines, k)
                    cp     == RecentPrefix(lines, k)
                    rs     == RankingStr(lines[k])
                    count  == ParseInt(Strip(Split(lines[k], ":")[2]))
                    after  == ProfileStep(before, lines[k], legend)
                    stored == SubSeq(after.entries, Len(before.entries) + 1,
                                     Len(after.entries))
                IN  (~before.failed /\ ~before.stopped) =>
                        /\ before.current_prefix = cp
                        /\ (rs # <<>> /\ rs[1] = MarkExactMatch /\ known(cp)) =>
                               stored = <<<<names(cp), count>>>>
                        /\ (rs # <<>> /\ StartsWith(rs[1], MarkEllipsis)) =>
                               LET ids == cp \o NonEmpty(SplitIds(
                                              SubSeq(rs[1], Len(MarkEllipsis) + 1, Len(rs[1]))))
                               IN  known(ids) => stored = <<<<names(ids), count>>>>
                        /\ (rs # <<>> /\ rs[1] # MarkExactMatch
                                /\ ~StartsWith(rs[1], MarkEllipsis)) =>
                               \A other \in {<<>>, <<<<"C", "0", "1">>>>,
                                             <<<<"C", "0", "2">>, <<"C", "0", "1">>>>} :
                                   /\ StoredFor(lines[k], other, legend)
                                          = StoredFor(lines[k], <<>>, legend)
                                   /\ stored = StoredFor(lines[k], <<>>, legend)

\* C25 witness: a decoded abstract in which a line with a full ranking follows
\* the lines of a PREFIX group, met while current_prefix holds that prefix
C25_Witness ==
    /\ Decoded
    /\ \E k \in 1..Len(abstract_file) :
          LET rs == RankingStr(abstract_file[k])
          IN  /\ rs # <<>>
              /\ rs[1] \notin {MarkExactMatch, EmptyMarker}
              /\ ~StartsWith(rs[1], MarkEllipsis)
              /\ DecoderStateAt(abstract_file, k).current_prefix # <<>>
              /\ DecoderStateAt(abstract_file, k).in_profile

\* the first line that starts with marker mark, one past the end when none does
FirstMarked(lines, mark) ==
    LET ks == {k \in 1..Len(lines) : StartsWith(lines[k], mark)}
    IN  IF ks = {} THEN Len(lines) + 1 ELSE CHOOSE k \in ks : \A j \in ks : k <= j

\* the lines with a colon that generate_abstract writes before and after the
\* profile section
IsTotalsLine(line) ==
    \E lead \in {ContestText[2], ContestText[3], ContestText[4], ContestText[5],
                 ContestText[6], TotalExpressionsPrefix, TotalBallotsFooterPrefix} :
        StartsWith(line, SubSeq(lead, 1, Len(lead) - 1))

\* C26: the decoder stores a profile entry only at a line after the
\* PREFERENCE PROFILE marker and before the END OF ABSTRACT marker. At every
\* other line, the header and footer lines with a colon among them, the
\* profile stays as it is and nothing is raised.
C26_SectionGating ==
    pc = "written" =>
        LET lines  == abstract_file
            legend == ParseLegend(lines)
            first  == FirstMarked(lines, MarkPreferenceProfile)
            last   == FirstMarked(lines, MarkEndOfAbstract)
        IN  /\ \A k \in 1..Len(lines) :
                  LET before == DecoderStateAt(lines, k)
                      after  == ProfileStep(before, lines[k], legend)
                  IN  (~(first < k /\ k < last) \/ IsTotalsLine(lines[k])) =>
                          /\ after.profile = before.profile
                          /\ after.entries = before.entries
                          /\ ~after.failed
            /\ \E k \in 1..(first - 1) : StartsWith(lines[k], ContestText[4])
            /\ \E k \in (last + 1)..Len(lines) : StartsWith(lines[k], TotalBallotsFooterPrefix)

\* C26 witness: an abstract with a prefix group and a line outside it, all
\* between the markers, was written
C26_Witness ==
    /\ pc = "written"
    /\ SomePrefixGroup
    /\ \E g \in 1..Len(groups) : groups[g][1] = <<>>
    /\ LastGroupLine(abstract_file) - FirstGroupLine(abstract_file) >= 4

\* the header of the PREFIX group line e lies in, 0 when it lies in none
GroupHeader(lines, e) ==
    LET hs == {h \in 1..(e - 1) :
                  /\ StartsWith(lines[h], PrefixLabel)
                  /\ \A j \in h..e : lines[j] # BlankLine}
    IN  IF hs = {} THEN 0 ELSE CHOOSE h \in hs : \A j \in hs : j <= h

\* C27: in the abstract that generate_abstract writes, an "(exact match)"
\* line stands only under a PREFIX header with a non-empty prefix, at most
\* once under each header, one for each group member that equals its prefix,
\* and it is read as a non-empty ranking; an "(empty)" line stands only
\* outside the PREFIX groups, only for the empty ranking of the profile, and
\* it is read as the empty ranking. No ranking is written in both ways.
C27_ExactAndEmptyExclusive ==
    pc = "written" =>
        LET lines  == abstract_file
            legend == ParseLegend(lines)
            body   == FirstGroupLine(lines)..LastGroupLine(lines)
            exact  == {k \in body : StartsWith(lines[k], ExactMatchLead)}
            empty  == {k \in body : StartsWith(Strip(lines[k]), EmptyMarker)}
            equal  == {gm \in (1..Len(groups)) \X (1..Len(sorted_rankings)) :
                          /\ gm[2] <= Len(groups[gm[1]][2])
                          /\ groups[gm[1]][1] # <<>>
                          /\ groups[gm[1]][2][gm[2]][1] = groups[gm[1]][1]}
        IN  /\ \A k \in exact :
                  /\ GroupHeader(lines, k) # 0
                  /\ Strip(SubSeq(lines[GroupHeader(lines, k)], Len(PrefixLabel) + 1,
                                  Len(lines[GroupHeader(lines, k)]))) # <<>>
                  /\ \A j \in exact : GroupHeader(lines, j) = GroupHeader(lines, k) => j = k
                  /\ \A cp \in {DecoderStateAt(lines, k).current_prefix} :
                        /\ cp # <<>>
                        /\ Len(StoredFor(lines[k], cp, legend)) = 1
                        /\ StoredFor(lines[k], cp, legend)[1][1] # <<>>
            /\ Cardinality(exact) = Cardinality(equal)
            /\ \A k \in empty :
                  /\ GroupHeader(lines, k) = 0
                  /\ DictHas(preference_profile, <<>>)
                  /\ lines[k] = EmptyRankingLine(DictGet(preference_profile, <<>>))
                  /\ StoredFor(lines[k], DecoderStateAt(lines, k).current_prefix, legend)
                         = <<<<<<>>, DictGet(preference_profile, <<>>)>>>>
            /\ Cardinality(empty) = IF DictHas(preference_profile, <<>>) THEN 1 ELSE 0
            /\ exact \cap empty = {}

\* C27 witness: an abstract with an "(empty)" line and, under a PREFIX
\* header, an "(exact match)" line
C27_Witness ==
    /\ pc = "written"
    /\ \E k \in 1..Len(abstract_file) : StartsWith(abstract_file[k], ExactMatchLead)
    /\ \E k \in 1..Len(abstract_file) : StartsWith(abstract_file[k], EmptyMarker)

\* C28: once verify_district has read the csv file with load_cvr_ballots, the
\* ballots it returns are the ballots load_ballots has appended, in the same
\* order, and counting them gives preference_profile: the same rankings, each
\* with the same count, the empty ranking included.
C28_SameCanonicalProfile ==
    pc \in {"load_abstract", "compare", "done", "raised"} =>
        /\ original_ballots = ballots
        /\ Len(original_ballots) = Len(csv_file)
        /\ DictEq(Counter(original_ballots), preference_profile)
        /\ \A k \in 1..Len(preference_profile) :
              preference_profile[k][2]
                  = Cardinality({j \in 1..Len(original_ballots) :
                                    original_ballots[j] = preference_profile[k][1]})

\* C28 witness: both loaders have read a file with a ballot without valid
\* marks, a ballot whose marks are cleaned (an overvote, a write-in or a
\* repeated candidate) and a ranking that two ballots share
C28_Witness ==
    /\ pc = "load_abstract"
    /\ DictHas(preference_profile, <<>>)
    /\ \E k \in 1..Len(preference_profile) : preference_profile[k][2] >= 2
    /\ \E k \in 1..Len(csv_file) :
          Len(original_ballots[k])
              < Cardinality({c \in DOMAIN csv_file[k] : csv_file[k][c] # NoMark})

---------------------------------------------------------------------------
(* A second call of generate_abstract on the same RankingAbstract          *)
(* instance: load_ballots reads the csv file again into the fields that    *)
(* __init__ alone has initialised.                                         *)

\* calls of generate_abstract on one instance
MaxCalls == 2

\* generate_abstract is called again: load_ballots opens the csv file again;
\* ballots, candidates and preference_profile are what the call before left
GenerateAgain ==
    /\ pc = "written"
    /\ Len(ballots) < MaxCalls * Len(csv_file)
    /\ pc' = "load_ballots"
    /\ next_row' = 1
    /\ UNCHANGED <<district, csv_file, min_group_size, ballots, candidates,
                   preference_profile, sorted_rankings, groups, abstract_file, tampered,
                   original_ballots, abstract_profile, candidate_legend, verdict>>
    /\ UNCHANGED <<report, mainVars, group_i>>

SpecAgain == Init /\ [][LoadBallot \/ WriteAbstract \/ GenerateAgain]_vars

\* C29: whenever generate_abstract has written the abstract, the first time
\* or again, the ballot list holds one ballot for each row of the csv file,
\* preference_profile gives each ranking the number of rows of the file with
\* that ranking, and the totals of the abstract are those of the file.
C29_NoAccumulation ==
    pc = "written" =>
        /\ Len(ballots) = Len(csv_file)
        /\ \A k \in 1..Len(preference_profile) :
              preference_profile[k][2]
                  = Cardinality({j \in 1..Len(csv_file) :
                                    RowRanking(csv_file[j]) = preference_profile[k][1]})
        /\ abstract_file[Len(abstract_file) - 1]
               = TotalBallotsFooterPrefix \o IntToStr(Len(csv_file)) \o <<NL>>

---------------------------------------------------------------------------
(* generate_prefix_groups run one iteration of its while loop at a time,   *)
(* with min_group_size any integer: with a negative one the range of end   *)
(* starts before the cursor, and the slices and the index of the loop      *)
(* count from the end of the list.                                         *)

\* the lowest min_group_size is -MaxNegativeGroupSize
MaxNegativeGroupSize == 1

\* iterations of the while loop
MaxGroups == 5

InitGrouping ==
    \E d \in Districts, file \in SeqsUpTo(Rows, MaxBallots),
       mgs \in (-MaxNegativeGroupSize)..MaxMinGroupSize :
        Constructed(d, file, mgs)

\* generate_abstract after load_ballots has returned: the sorted profile,
\* and generate_prefix_groups up to its while loop
StartGrouping ==
    /\ pc = "load_ballots"
    /\ next_row > Len(csv_file)
    /\ sorted_rankings' = get_sorted_rankings(candidates, preference_profile)
    /\ groups' = <<>>
    /\ group_i' = 0
    /\ pc' = "generate_prefix_groups"
    /\ UNCHANGED <<district, csv_file, min_group_size, next_row, ballots, candidates,
                   preference_profile, abstract_file, tampered, original_ballots,
                   abstract_profile, candidate_legend, verdict>>
    /\ UNCHANGED <<report, mainVars>>

\* one iteration of the while loop of generate_prefix_groups
GroupIteration ==
    /\ pc = "generate_prefix_groups"
    /\ group_i < Len(sorted_rankings)
    /\ Len(groups) < MaxGroups
    /\ \E step \in {GroupAt(sorted_rankings, group_i, min_group_size)} :
          /\ groups' = Append(groups, step.group)
          /\ group_i' = step.next
    /\ UNCHANGED <<pc, district, csv_file, min_group_size, next_row, ballots, candidates,
                   preference_profile, sorted_rankings, abstract_file, tampered,
                   original_ballots, abstract_profile, candidate_legend, verdict>>
    /\ UNCHANGED <<report, mainVars>>

\* the while loop has ended: return groups
ReturnGroups ==
    /\ pc = "generate_prefix_groups"
    /\ group_i >= Len(sorted_rankings)
    /\ pc' = "grouped"
    /\ UNCHANGED <<district, csv_file, min_group_size, next_row, ballots, candidates,
                   preference_profile, sorted_rankings, groups, group_i, abstract_file,
                   tampered, original_ballots, abstract_profile, candidate_legend,
                   verdict>>
    /\ UNCHANGED <<report, mainVars>>

SpecGrouping ==
    InitGrouping /\ [][LoadBallot \/ StartGrouping \/ GroupIteration \/ ReturnGroups]_vars

\* C30: every iteration of the while loop of generate_prefix_groups appends
\* one group and moves the cursor i forward by at least one entry, whatever
\* integer min_group_size is, and the loop ends with i equal to the length
\* of the sorted profile.
C30_CursorAdvances ==
    [][/\ (pc = "generate_prefix_groups" /\ pc' = "generate_prefix_groups")
            => (group_i' >= group_i + 1 /\ Len(groups') = Len(groups) + 1)
       /\ (pc = "generate_prefix_groups" /\ pc' = "grouped")
            => group_i = Len(sorted_rankings)]_vars

====
